---- MODULE Spec2Model ----
(***************************************************************************)
(* Verification model of the QR experiment core (src/qr_core):             *)
(*   - pareto.py       pareto_front / _dominates                           *)
(*   - metrics.py      run_experiment                                      *)
(*   - web_app.py      job registry, /run handler, worker thread, polling  *)
(* Real-valued quantities (seconds, accuracies) are kept as integers in    *)
(* hundredths; only their order and equality are used by the code.         *)
(***************************************************************************)
EXTENDS Integers, Sequences, FiniteSets, TLC

(***************************************************************************)
(* Bounds of the model                                                     *)
(***************************************************************************)
\* longest list of points handed to pareto_front
MaxPoints == 3
\* most samples run_experiment enumerates when it is studied alone
MaxSamples == 2
\* largest decode_iterations a caller passes
MaxIterations == 2
\* most /run requests handled while worker threads run
MaxRequests == 2
\* most /run requests handled in the study of the handler alone
MaxRouteRequests == 2
\* largest raw module size handed to quantize_module_size, in tenths of a pixel
MaxRawTenths == 75
\* largest bin step handed to quantize_module_size
MaxStep == 3
\* longest list of Measurements handed to build_bin_stats
MaxRecords == 3

(***************************************************************************)
(* State                                                                   *)
(***************************************************************************)
VARIABLES
    p_pc,            \* pareto harness: "input" before the call, "done" after
    points,          \* pareto_front argument: list of aggregate points
    minimize_keys,   \* pareto_front argument
    maximize_keys,   \* pareto_front argument
    front            \* pareto_front result, as positions into `points`
                     \* (the returned list holds the very dict objects passed in)

VARIABLES
    r_pc,            \* run_experiment: "loop", "returned" or "raised"
    r_cfg,           \* ExperimentConfig: decode_iterations, module_bin_step_px
    r_total,         \* number of samples iter_qr_samples will yield
    r_loc,           \* run_experiment's locals: the counters and `results`
    r_ret,           \* the returned (results, summary), once returned
    r_cb,            \* the ProgressState of the latest progress_cb call, if any
    r_cb_count       \* number of progress_cb calls so far

VARIABLES
    JOBS,            \* the job registry: job id -> job dict; ids are 1, 2, ...
    workers,         \* one worker thread per registered job: position and locals
    datasets,        \* the datasets directory: name -> structure and images
    nreq,            \* number of /run requests handled so far
    req,             \* the latest /run request
    resp,            \* the response to it
    polled           \* what the latest /progress poll returned

VARIABLES
    JOBS_LOCK,       \* the threads that hold JOBS_LOCK
    w_call,          \* the worker's _update_job call in progress, if any
    r_call,          \* the observer's _get_job call in progress, if any
    snapshot,        \* what the latest _get_job call returned
    history          \* the job dicts stored so far by _init_job and by each
                     \* completed _update_job call

VARIABLES
    f_pc,            \* function harness: "input" before the call, "done" after
    f_args,          \* the arguments of the call
    f_ret            \* its result

webVars == <<JOBS, workers, datasets, nreq, req, resp, polled>>

lockVars == <<JOBS_LOCK, w_call, r_call, snapshot, history>>

callVars == <<f_pc, f_args, f_ret>>

paretoVars == <<p_pc, points, minimize_keys, maximize_keys, front>>

runnerVars == <<r_pc, r_cfg, r_total, r_loc, r_ret, r_cb, r_cb_count>>

vars == <<p_pc, points, minimize_keys, maximize_keys, front,
          r_pc, r_cfg, r_total, r_loc, r_ret, r_cb, r_cb_count,
          JOBS, workers, datasets, nreq, req, resp, polled,
          JOBS_LOCK, w_call, r_call, snapshot, history,
          f_pc, f_args, f_ret>>

\* Python's None and a present value, for optional values
None == <<>>
Some(v) == <<v>>

Max(a, b) == IF a >= b THEN a ELSE b

RECURSIVE MinOf(_)
MinOf(seq) ==
    IF Len(seq) = 1 THEN seq[1]
    ELSE LET m == MinOf(Tail(seq)) IN IF seq[1] <= m THEN seq[1] ELSE m

\* run_experiment's locals at entry (lines 62-68)
InitialLocals ==
    [seen |-> 0, processed |-> 0, skipped_no_markup |-> 0, skipped_bad_module |-> 0,
     skipped_image_read |-> 0, results |-> <<>>]

\* a component that a specification does not exercise stays in its idle state
ParetoIdle ==
    /\ p_pc = "idle"
    /\ points = <<>>
    /\ minimize_keys = <<>>
    /\ maximize_keys = <<>>
    /\ front = <<>>

RunnerIdle ==
    /\ r_pc = "idle"
    /\ r_cfg = [decode_iterations |-> 1, module_bin_step_px |-> 1]
    /\ r_total = 0
    /\ r_loc = InitialLocals
    /\ r_ret = None
    /\ r_cb = None
    /\ r_cb_count = 0

\* the datasets directory at start: "a" holds two images, "e" has the folders
\* but no image, "n" is a directory without the dataset folders
InitialDatasets ==
    (<<"a">> :> [structure |-> TRUE, images |-> 2])
        @@ (<<"e">> :> [structure |-> TRUE, images |-> 0])
        @@ (<<"n">> :> [structure |-> FALSE, images |-> 0])

NoRequest ==
    [iterations |-> None, bin_step_px |-> None, engine |-> None,
     dataset_source |-> None, dataset_name |-> None, dataset_file |-> None]

NoResponse == [kind |-> "none", error |-> None, job_id |-> None]

WebIdle ==
    /\ JOBS = <<>>
    /\ workers = <<>>
    /\ datasets = InitialDatasets
    /\ nreq = 0
    /\ req = NoRequest
    /\ resp = NoResponse
    /\ polled = None

LockIdle ==
    /\ JOBS_LOCK = {}
    /\ w_call = None
    /\ r_call = None
    /\ snapshot = None
    /\ history = {}

CallIdle ==
    /\ f_pc = "idle"
    /\ f_args = None
    /\ f_ret = None

(***************************************************************************)
(* binning.py, metrics.py: run_experiment                                  *)
(***************************************************************************)
\* round() that takes halves upwards
MutRoundHalfUp(num, den) ==
    IF 2 * (num % den) < den THEN num \div den ELSE (num \div den) + 1

\* Python round(num / den) for den > 0: to the nearest integer, halves to even
RoundHalfEven(num, den) ==
    LET q == num \div den
        r == num % den
    IN  IF 2 * r < den THEN q
        ELSE IF 2 * r > den THEN q + 1
        ELSE IF q % 2 = 0 THEN q ELSE q + 1

\* quantize_module_size that takes the next multiple of the step
MutQuantizeNextMultiple(module_size_px, step_px) ==
    LET step == Max(1, step_px)
        rounded == RoundHalfEven(module_size_px, 10)
    IN  Max(step, ((rounded \div step) + 1) * step)

\* quantize_module_size(module_size_px, step_px), module_size_px in tenths of a
\* pixel and present (the caller has returned on None before)
quantize_module_size(module_size_px, step_px) ==
    LET step == Max(1, step_px)
        rounded == RoundHalfEven(module_size_px, 10)
        quantized == RoundHalfEven(rounded, step) * step
    IN  IF step = 1 THEN Max(1, rounded) ELSE Max(step, quantized)

\* what one engine.decode_once call does: return (text, seconds), raise
\* EngineError (ImageReadError), or raise something else from the library
DecodeOutcomes ==
    { [kind |-> "EngineError", text |-> "", time |-> 0],
      [kind |-> "OtherError", text |-> "", time |-> 0],
      [kind |-> "ok", text |-> "", time |-> 2],
      [kind |-> "ok", text |-> "a", time |-> 1] }

\* raw module sizes of the markup, tenths of a pixel
RawValues == {34, 71}

\* the calls a sample may need: decode_iterations is coerced to at least 1
AttemptCount == Max(1, MaxIterations)

NoAttempts == [k \in 1..AttemptCount |-> [kind |-> "ok", text |-> "", time |-> 2]]

\* What the file system and the decoder hold for one enumerated sample.
\*   markup: "missing" (not a file), "unreadable" (read_markup returns None),
\*           "undecodable" (json.load raises UnicodeDecodeError), "ok"
\*   module: "none" (extract_module_size_px returns None), "nan" (a NaN module
\*           size, on which round() raises), "num" (module_raw holds it)
SampleValues ==
    { [markup |-> m, module |-> "none", module_raw |-> 0, expected |-> None,
       attempts |-> NoAttempts] : m \in {"missing", "unreadable", "undecodable"} }
    \cup
    { [markup |-> "ok", module |-> k, module_raw |-> 0, expected |-> None,
       attempts |-> NoAttempts] : k \in {"none", "nan"} }
    \cup
    [markup : {"ok"}, module : {"num"}, module_raw : RawValues,
     expected : {None, Some("a")},
     attempts : [1..AttemptCount -> DecodeOutcomes]]

\* Counter(decoded_values).most_common(1)[0][0]: the most frequent value, the
\* first seen among equally frequent ones
MostCommon(values) ==
    LET count(v) == Cardinality({i \in 1..Len(values) : values[i] = v})
        first(v) == CHOOSE i \in 1..Len(values) :
                        values[i] = v /\ \A j \in 1..(i - 1) : values[j] # v
        best == CHOOSE i \in 1..Len(values) :
                    /\ first(values[i]) = i
                    /\ \A j \in 1..Len(values) :
                          \/ count(values[j]) < count(values[i])
                          \/ count(values[j]) = count(values[i])
                                /\ first(values[j]) >= i
    IN  values[best]

\* val.strip() is non-empty: the model's texts are "" and "a"
StripNonEmpty(val) == val # ""

\* an attempt loop that drops a failed attempt and goes on with the next
RECURSIVE MutDecodeLoopGoesOn(_, _, _, _, _)
MutDecodeLoopGoesOn(attempts, k, iterations, decoded_values, times) ==
    IF k > iterations THEN
        [end |-> "ok", decoded_values |-> decoded_values, times |-> times, calls |-> k - 1]
    ELSE IF attempts[k].kind = "OtherError" THEN
        [end |-> "raised", decoded_values |-> decoded_values, times |-> times, calls |-> k]
    ELSE IF attempts[k].kind = "EngineError" THEN
        MutDecodeLoopGoesOn(attempts, k + 1, iterations, decoded_values, times)
    ELSE MutDecodeLoopGoesOn(attempts, k + 1, iterations,
                             Append(decoded_values, attempts[k].text),
                             Append(times, attempts[k].time))

\* the attempt loop of run_experiment (lines 105-114) from call k on
RECURSIVE DecodeLoop(_, _, _, _, _)
DecodeLoop(attempts, k, iterations, decoded_values, times) ==
    IF k > iterations THEN
        [end |-> "ok", decoded_values |-> decoded_values, times |-> times, calls |-> k - 1]
    ELSE IF attempts[k].kind = "EngineError" THEN
        [end |-> "EngineError", decoded_values |-> decoded_values, times |-> times, calls |-> k]
    ELSE IF attempts[k].kind = "OtherError" THEN
        [end |-> "raised", decoded_values |-> decoded_values, times |-> times, calls |-> k]
    ELSE DecodeLoop(attempts, k + 1, iterations,
                    Append(decoded_values, attempts[k].text),
                    Append(times, attempts[k].time))

ProgressState(loc) ==
    [seen |-> loc.seen, processed |-> loc.processed,
     skipped_no_markup |-> loc.skipped_no_markup,
     skipped_bad_module |-> loc.skipped_bad_module,
     skipped_image_read |-> loc.skipped_image_read]

\* the SampleResult appended at lines 127-142
SampleResult(loc, cfg, s, iterations, dec) ==
    [module_size |-> quantize_module_size(s.module_raw, cfg.module_bin_step_px),
     module_size_raw |-> s.module_raw,
     module_bin_step_px |-> cfg.module_bin_step_px,
     time_total_min_sec |-> MinOf(dec.times),
     accuracy |-> [num |-> Cardinality({i \in 1..Len(dec.decoded_values) :
                                           StripNonEmpty(dec.decoded_values[i])}),
                   den |-> Len(dec.decoded_values)],
     decoded |-> MostCommon(dec.decoded_values),
     expected |-> IF s.expected = None THEN "" ELSE s.expected[1],
     image_path |-> loc.seen + 1,
     decode_iterations |-> iterations]

\* skipped_no_markup += 1 (lines 76 and 82)
SkipNoMarkup(loc) == [loc EXCEPT !.skipped_no_markup = @ + 1]

\* skipped_bad_module += 1 (lines 89 and 97)
SkipBadModule(loc) == [loc EXCEPT !.skipped_bad_module = @ + 1]

\* an EngineError that is caught without being counted
MutSkipImageReadUncounted(loc) == loc

\* skipped_image_read += 1 (line 109)
SkipImageRead(loc) == [loc EXCEPT !.skipped_image_read = @ + 1]

\* results.append(...); processed += 1 (lines 127-143)
Emit(loc, result) ==
    [loc EXCEPT !.results = Append(@, result), !.processed = @ + 1]

\* One pass of the loop body (lines 73-144) on sample s: the locals afterwards,
\* whether _notify_progress was reached, and whether an exception left the loop.
SampleStep(loc, cfg, s) ==
    LET iterations == Max(1, cfg.decode_iterations)
        seen1 == [loc EXCEPT !.seen = @ + 1]
        dec == DecodeLoop(s.attempts, 1, iterations, <<>>, <<>>)
    IN  IF s.markup = "missing" THEN
            [loc |-> SkipNoMarkup(seen1), notify |-> TRUE, raised |-> FALSE]
        ELSE IF s.markup = "undecodable" THEN
            [loc |-> seen1, notify |-> FALSE, raised |-> TRUE]
        ELSE IF s.markup = "unreadable" THEN
            [loc |-> SkipNoMarkup(seen1), notify |-> TRUE, raised |-> FALSE]
        ELSE IF s.module = "none" THEN
            [loc |-> SkipBadModule(seen1), notify |-> TRUE, raised |-> FALSE]
        ELSE IF s.module = "nan" THEN
            [loc |-> seen1, notify |-> FALSE, raised |-> TRUE]
        ELSE IF dec.end = "raised" THEN
            [loc |-> seen1, notify |-> FALSE, raised |-> TRUE]
        ELSE IF dec.end = "EngineError" THEN
            [loc |-> SkipImageRead(seen1), notify |-> TRUE, raised |-> FALSE]
        ELSE IF dec.times = <<>> THEN
            [loc |-> seen1, notify |-> TRUE, raised |-> FALSE]
        ELSE
            [loc |-> Emit(seen1, SampleResult(loc, cfg, s, iterations, dec)),
             notify |-> TRUE, raised |-> FALSE]

\* the ExperimentSummary built at lines 146-151
ExperimentSummary(loc) ==
    [processed |-> loc.processed, skipped_no_markup |-> loc.skipped_no_markup,
     skipped_bad_module |-> loc.skipped_bad_module,
     skipped_image_read |-> loc.skipped_image_read]

\* configurations a caller of run_experiment may pass
ConfigValues == [decode_iterations : 0..MaxIterations, module_bin_step_px : {0, 1, 2}]

\* run_experiment entered (lines 62-70) with a progress callback
InitRunner ==
    /\ ParetoIdle
    /\ WebIdle
    /\ LockIdle
    /\ CallIdle
    /\ r_pc = "loop"
    /\ r_cfg \in ConfigValues
    /\ r_total \in 0..MaxSamples
    /\ r_loc = InitialLocals
    /\ r_ret = None
    /\ r_cb = None
    /\ r_cb_count = 0

\* one iteration of the for loop over iter_qr_samples
RunnerSample ==
    /\ r_pc = "loop"
    /\ r_loc.seen < r_total
    /\ \E s \in SampleValues :
          LET st == SampleStep(r_loc, r_cfg, s) IN
          /\ r_loc' = st.loc
          /\ r_pc' = IF st.raised THEN "raised" ELSE "loop"
          /\ r_cb' = IF st.notify THEN Some(ProgressState(st.loc)) ELSE r_cb
          /\ r_cb_count' = IF st.notify THEN r_cb_count + 1 ELSE r_cb_count
    /\ UNCHANGED <<r_cfg, r_total, r_ret>>
    /\ UNCHANGED paretoVars
    /\ UNCHANGED webVars
    /\ UNCHANGED <<lockVars, callVars>>

\* the loop is exhausted: build the summary and return (lines 146-153)
RunnerReturn ==
    /\ r_pc = "loop"
    /\ r_loc.seen = r_total
    /\ r_pc' = "returned"
    /\ r_ret' = Some([results |-> r_loc.results, summary |-> ExperimentSummary(r_loc)])
    /\ UNCHANGED <<r_cfg, r_total, r_loc, r_cb, r_cb_count>>
    /\ UNCHANGED paretoVars
    /\ UNCHANGED webVars
    /\ UNCHANGED <<lockVars, callVars>>

NextRunner == RunnerSample \/ RunnerReturn

SpecRunner == InitRunner /\ [][NextRunner]_vars

(***************************************************************************)
(* metrics.py: one pass of the loop body of run_experiment, taken alone    *)
(***************************************************************************)
\* the locals before the pass: the first sample of a run, or a later one with
\* every counter at 1 and one Measurement already emitted
EarlierResult ==
    [module_size |-> 3, module_size_raw |-> 34, module_bin_step_px |-> 1,
     time_total_min_sec |-> 1, accuracy |-> [num |-> 1, den |-> 1], decoded |-> "a",
     expected |-> "a", image_path |-> 1, decode_iterations |-> 1]

LocalsValues ==
    {InitialLocals,
     [seen |-> 4, processed |-> 1, skipped_no_markup |-> 1, skipped_bad_module |-> 1,
      skipped_image_read |-> 1, results |-> <<EarlierResult>>]}

SampleInputs == [loc : LocalsValues, cfg : ConfigValues, s : SampleValues]

\* the number of engine.decode_once calls the pass makes: none when the sample
\* is skipped before line 105
DecodeCalls(cfg, s) ==
    IF s.markup = "ok" /\ s.module = "num"
    THEN DecodeLoop(s.attempts, 1, Max(1, cfg.decode_iterations), <<>>, <<>>).calls
    ELSE 0

InitSample ==
    /\ ParetoIdle
    /\ RunnerIdle
    /\ WebIdle
    /\ LockIdle
    /\ f_pc = "input"
    /\ f_args \in SampleInputs
    /\ f_ret = None

CallSample ==
    /\ f_pc = "input"
    /\ f_pc' = "done"
    /\ f_ret' = [step |-> SampleStep(f_args.loc, f_args.cfg, f_args.s),
                 calls |-> DecodeCalls(f_args.cfg, f_args.s)]
    /\ UNCHANGED f_args
    /\ UNCHANGED <<paretoVars, runnerVars, webVars, lockVars>>

NextSample == CallSample

SpecSample == InitSample /\ [][NextSample]_vars

(***************************************************************************)
(* pareto.py                                                               *)
(***************************************************************************)
\* the three aggregate points of the documented scenario
\* (hundredths of a second / of 1.0)
ScenarioPoints ==
    << [module_size |-> 2, time_median |-> 20, accuracy_mean |-> 100],
       [module_size |-> 4, time_median |-> 15, accuracy_mean |-> 50],
       [module_size |-> 6, time_median |-> 12, accuracy_mean |-> 60] >>

\* points a call may receive: a grid with ties on every field, and the scenario's
PointValues ==
    [module_size : {2, 4}, time_median : {12, 15}, accuracy_mean : {50, 60}]
        \cup {ScenarioPoints[i] : i \in 1..3}

\* key lists a caller may pass
MinimizeChoices == {<<>>, <<"time_median">>, <<"time_median", "module_size">>}
MaximizeChoices == {<<>>, <<"accuracy_mean">>}

\* Python tuple comparison a < b
RECURSIVE TupleLess(_, _)
TupleLess(a, b) ==
    IF a = <<>> \/ b = <<>> THEN Len(a) < Len(b)
    ELSE IF Head(a) < Head(b) THEN TRUE
    ELSE IF Head(b) < Head(a) THEN FALSE
    ELSE TupleLess(Tail(a), Tail(b))

\* sort_key without the module_size tie-break
MutSortKeyNoBin(p, mink, maxk) ==
    [i \in 1..Len(mink) |-> p[mink[i]]]
        \o [i \in 1..Len(maxk) |-> 0 - p[maxk[i]]]

\* sort_key(p): minimize values, negated maximize values, then module_size
sort_key(p, mink, maxk) ==
    [i \in 1..Len(mink) |-> p[mink[i]]]
        \o [i \in 1..Len(maxk) |-> 0 - p[maxk[i]]]
        \o << IF "module_size" \in DOMAIN p THEN p.module_size ELSE 0 >>

\* sorted(points, key=sort_key) over the first n points: a stable sort, so a
\* point goes behind every earlier point whose key is not greater
RECURSIVE sorted(_, _, _, _)
sorted(pts, mink, maxk, n) ==
    IF n = 0 THEN <<>>
    ELSE LET prev == sorted(pts, mink, maxk, n - 1)
             k == sort_key(pts[n], mink, maxk)
             pos == Cardinality({i \in 1..Len(prev) :
                        ~TupleLess(k, sort_key(pts[prev[i]], mink, maxk))})
         IN  SubSeq(prev, 1, pos) \o <<n>> \o SubSeq(prev, pos + 1, Len(prev))

\* _dominates looking at the minimize keys only
MutDominatesMinOnly(a, b, mink, maxk) ==
    /\ \A i \in 1..Len(mink) : a[mink[i]] <= b[mink[i]]
    /\ \E i \in 1..Len(mink) : a[mink[i]] < b[mink[i]]

\* _dominates asking for a strict inequality on every key
MutDominatesAllStrict(a, b, mink, maxk) ==
    /\ \A i \in 1..Len(mink) : a[mink[i]] < b[mink[i]]
    /\ \A i \in 1..Len(maxk) : a[maxk[i]] > b[maxk[i]]
    /\ Len(mink) + Len(maxk) > 0

\* _dominates without the strictness test
MutDominatesNotStrict(a, b, mink, maxk) ==
    /\ \A i \in 1..Len(mink) : a[mink[i]] <= b[mink[i]]
    /\ \A i \in 1..Len(maxk) : a[maxk[i]] >= b[maxk[i]]

\* _dominates(a, b, minimize_keys, maximize_keys)
Dominates(a, b, mink, maxk) ==
    LET all_min == \A i \in 1..Len(mink) : a[mink[i]] <= b[mink[i]]
        all_max == \A i \in 1..Len(maxk) : a[maxk[i]] >= b[maxk[i]]
        any_strict == (\E i \in 1..Len(mink) : a[mink[i]] < b[mink[i]])
                        \/ (\E i \in 1..Len(maxk) : a[maxk[i]] > b[maxk[i]])
    IN  IF ~(all_min /\ all_max) THEN FALSE ELSE any_strict

\* pareto_front(points, minimize_keys, maximize_keys); positions stand for the
\* dict objects, so `q is p` is equality of positions
pareto_front(pts, mink, maxk) ==
    IF pts = <<>> THEN <<>>
    ELSE LET ordered == sorted(pts, mink, maxk, Len(pts))
             kept(p) == ~\E i \in 1..Len(ordered) :
                             /\ ordered[i] # p
                             /\ Dominates(pts[ordered[i]], pts[p], mink, maxk)
         IN  SelectSeq(ordered, kept)

\* the returned list as points
FrontPoints == [i \in 1..Len(front) |-> points[front[i]]]

ParetoInputs ==
    UNION {[1..n -> PointValues] : n \in 0..MaxPoints}

InitPareto ==
    /\ RunnerIdle
    /\ WebIdle
    /\ LockIdle
    /\ CallIdle
    /\ p_pc = "input"
    /\ points \in ParetoInputs
    /\ minimize_keys \in MinimizeChoices
    /\ maximize_keys \in MaximizeChoices
    /\ front = <<>>

CallParetoFront ==
    /\ p_pc = "input"
    /\ front' = pareto_front(points, minimize_keys, maximize_keys)
    /\ p_pc' = "done"
    /\ UNCHANGED <<points, minimize_keys, maximize_keys>>
    /\ UNCHANGED runnerVars
    /\ UNCHANGED webVars
    /\ UNCHANGED <<lockVars, callVars>>

NextPareto == CallParetoFront

SpecPareto == InitPareto /\ [][NextPareto]_vars

(***************************************************************************)
(* web_app.py: request parsing                                             *)
(***************************************************************************)
\* Texts are sequences of characters. Form values are None or Some(text).
Digits == {"0", "1", "2", "3"}

DigitValue(c) == CASE c = "0" -> 0 [] c = "1" -> 1 [] c = "2" -> 2 [] c = "3" -> 3

IsSpace(c) == c = " "

RECURSIVE LStrip(_)
LStrip(t) == IF t # <<>> /\ IsSpace(Head(t)) THEN LStrip(Tail(t)) ELSE t

RECURSIVE RStrip(_)
RStrip(t) ==
    IF t # <<>> /\ IsSpace(t[Len(t)]) THEN RStrip(SubSeq(t, 1, Len(t) - 1)) ELSE t

\* str.strip()
Strip(t) == RStrip(LStrip(t))

RECURSIVE DigitsValue(_, _)
DigitsValue(t, acc) ==
    IF t = <<>> THEN acc ELSE DigitsValue(Tail(t), 10 * acc + DigitValue(Head(t)))

\* int(value) on a text: surrounding blanks and one sign are accepted, then
\* digits only; None stands for ValueError
PyInt(t) ==
    LET st == Strip(t)
        signed == st # <<>> /\ Head(st) \in {"-", "+"}
        body == IF signed THEN Tail(st) ELSE st
        v == DigitsValue(body, 0)
    IN  IF body = <<>> \/ \E i \in 1..Len(body) : body[i] \notin Digits THEN None
        ELSE IF signed /\ Head(st) = "-" THEN Some(0 - v) ELSE Some(v)

\* _parse_positive_int accepting whatever int() accepts
MutParseAnyInt(value, default) ==
    IF value = None \/ value[1] = <<>> THEN default
    ELSE IF PyInt(value[1]) = None THEN default ELSE PyInt(value[1])[1]

\* _parse_positive_int(value, default)
parse_positive_int(value, default) ==
    IF value = None \/ value[1] = <<>> THEN default
    ELSE LET parsed == PyInt(value[1])
         IN  IF parsed = None THEN default
             ELSE IF parsed[1] > 0 THEN parsed[1] ELSE default

\* defaults the /run handler passes to _parse_positive_int
DefaultIterations == 3
DefaultBinStep == 2

\* keys of ENGINE_REGISTRY
ENGINE_REGISTRY == {"opencv", "zxing", "zbar"}

\* _safe_engine_key that accepts every key
MutEngineKeyAlwaysSafe(engine_key) == TRUE

\* _safe_engine_key(engine_key, registry)
safe_engine_key(engine_key) == engine_key \in ENGINE_REGISTRY

\* characters matched by [A-Za-z0-9_-]
NameClass == {"a", "e", "n", "u", "x", "_", "-"} \cup Digits

\* _safe_dataset_name(value): None, or Some(cleaned name)
safe_dataset_name(value) ==
    IF value = None \/ value[1] = <<>> THEN None
    ELSE LET cleaned == Strip(value[1])
         IN  IF cleaned = <<>> THEN None
             ELSE IF \E i \in 1..Len(cleaned) : cleaned[i] \notin NameClass THEN None
             ELSE Some(cleaned)

\* _has_dataset_structure(root / "datasets" / name)
has_dataset_structure(fs, name) == name \in DOMAIN fs /\ fs[name].structure

\* a count of the samples that starts at one
MutSampleCountFromOne(fs, name) ==
    IF name \in DOMAIN fs /\ fs[name].structure THEN fs[name].images + 1 ELSE 1

\* sum(1 for _ in iter_qr_samples(root, dataset)): nothing is yielded when the
\* images folder is missing
sample_count(fs, name) ==
    IF name \in DOMAIN fs /\ fs[name].structure THEN fs[name].images ELSE 0

\* Path(filename).stem: the name up to its last dot, a leading dot kept
Stem(t) ==
    LET dots == {i \in 2..(Len(t) - 1) : t[i] = "."}
    IN  IF dots = {} THEN t
        ELSE SubSeq(t, 1, (CHOOSE i \in dots : \A k \in dots : k <= i) - 1)

\* _store_uploaded_dataset(file_storage, project_root): (dataset, error) and the
\* datasets directory afterwards. The upload says how it unpacks:
\*   zip: "bad" (BadZipFile), "unpackfail" (any other exception, an unsafe path
\*   included), "nostructure", "storefail" (mkdir/move raises), "ok"
store_uploaded_dataset(file, fs) ==
    IF file = None \/ file[1].filename = <<>> THEN
        [dataset |-> None, error |-> Some("No dataset zip provided."), datasets |-> fs]
    ELSE
    LET f == file[1]
        safe_name == safe_dataset_name(Some(Stem(f.filename)))
    IN  IF safe_name = None THEN
            [dataset |-> None, error |-> Some("Invalid dataset name derived from zip filename."),
             datasets |-> fs]
        ELSE IF safe_name[1] \in DOMAIN fs THEN
            IF has_dataset_structure(fs, safe_name[1]) THEN
                [dataset |-> safe_name, error |-> None, datasets |-> fs]
            ELSE
                [dataset |-> None, error |-> Some("Dataset exists but has invalid structure."),
                 datasets |-> fs]
        ELSE IF f.zip = "bad" THEN
            [dataset |-> None, error |-> Some("Uploaded file is not a valid zip archive."),
             datasets |-> fs]
        ELSE IF f.zip = "unpackfail" THEN
            [dataset |-> None, error |-> Some("Failed to unpack zip"), datasets |-> fs]
        ELSE IF f.zip = "nostructure" THEN
            [dataset |-> None, error |-> Some("Zip must contain images/QR_CODE and markup/QR_CODE."),
             datasets |-> fs]
        ELSE IF f.zip = "storefail" THEN
            [dataset |-> None, error |-> Some("Failed to store dataset"), datasets |-> fs]
        ELSE
            [dataset |-> safe_name, error |-> None,
             datasets |-> fs @@ (safe_name[1] :> [structure |-> TRUE, images |-> f.images])]

(***************************************************************************)
(* web_app.py: job registry                                                *)
(***************************************************************************)
\* the dict _init_job stores (lines 1722-1736)
NewJob(dataset, engine_key, iterations, bin_step_px, total) ==
    [status |-> "queued", dataset |-> dataset, engine |-> engine_key,
     iterations |-> iterations, bin_step_px |-> bin_step_px, total |-> total,
     seen |-> 0, processed |-> 0, skipped_no_markup |-> 0,
     error |-> None, json_file |-> None, html_file |-> None, summary |-> None]

\* _update_job on a registry whose jobs share one dict: the updates reach every
\* entry
MutUpdateJobShared(jobs, job_id, updates) ==
    IF job_id \notin DOMAIN jobs THEN jobs
    ELSE [j \in DOMAIN jobs |->
            [k \in (DOMAIN jobs[j]) \cup (DOMAIN updates) |->
                IF k \in DOMAIN updates THEN updates[k] ELSE jobs[j][k]]]

\* _update_job that stores a fresh job dict holding the updates instead of
\* updating the stored one
MutUpdateJobReplace(jobs, job_id, updates) ==
    IF job_id \notin DOMAIN jobs THEN jobs
    ELSE LET old == jobs[job_id]
             fresh == NewJob(old.dataset, old.engine, old.iterations, old.bin_step_px,
                             old.total)
         IN  [jobs EXCEPT ![job_id] =
                 [k \in DOMAIN fresh |->
                     IF k \in DOMAIN updates THEN updates[k] ELSE fresh[k]]]

\* _update_job(job_id, **updates): job.update(updates) on a registered job
update_job(jobs, job_id, updates) ==
    IF job_id \notin DOMAIN jobs THEN jobs
    ELSE [jobs EXCEPT ![job_id] =
            [k \in (DOMAIN @) \cup (DOMAIN updates) |->
                IF k \in DOMAIN updates THEN updates[k] ELSE @[k]]]

\* _get_job(job_id): a copy of the dict, or None
get_job(jobs, job_id) ==
    IF job_id \in DOMAIN jobs THEN Some(jobs[job_id]) ELSE None

\* the thread created at lines 1908-1913, about to run _run_job
NewWorker(job_id, dataset, engine_key, iterations, bin_step_px) ==
    [pc |-> "start", job_id |-> job_id, dataset |-> dataset, engine_key |-> engine_key,
     iterations |-> iterations, bin_step_px |-> bin_step_px, loc |-> InitialLocals]

(***************************************************************************)
(* web_app.py: POST /run                                                   *)
(***************************************************************************)
PageResponse(error) == [kind |-> "page", error |-> Some(error), job_id |-> None]

\* lines 1864-1885: (dataset, error) and the datasets directory afterwards
ResolveDataset(rq, fs) ==
    LET dataset_source ==
            IF rq.dataset_source = None \/ rq.dataset_source[1] = "" THEN "existing"
            ELSE rq.dataset_source[1]
        dataset_name == safe_dataset_name(rq.dataset_name)
    IN  IF dataset_source = "zip" THEN
            store_uploaded_dataset(rq.dataset_file, fs)
        ELSE IF dataset_source = "existing" THEN
            IF dataset_name # None THEN
                IF has_dataset_structure(fs, dataset_name[1]) THEN
                    [dataset |-> dataset_name, error |-> None, datasets |-> fs]
                ELSE
                    [dataset |-> None,
                     error |-> Some("Dataset is missing or has invalid structure."),
                     datasets |-> fs]
            ELSE [dataset |-> None, error |-> Some("No dataset selected."), datasets |-> fs]
        ELSE [dataset |-> None, error |-> Some("Invalid dataset source."), datasets |-> fs]

\* run_experiment_route (lines 1849-1915) on request rq
HandleRun(rq) ==
    LET iterations == parse_positive_int(rq.iterations, DefaultIterations)
        bin_step_px == parse_positive_int(rq.bin_step_px, DefaultBinStep)
        engine_key == IF rq.engine = None THEN "" ELSE rq.engine[1]
        found == ResolveDataset(rq, datasets)
        total == sample_count(found.datasets, found.dataset[1])
        job_id == Len(JOBS) + 1
    IN  /\ nreq' = nreq + 1
        /\ req' = rq
        /\ IF ~safe_engine_key(engine_key) THEN
               /\ resp' = PageResponse("Unknown engine selected.")
               /\ UNCHANGED <<JOBS, workers, datasets>>
           ELSE IF found.error # None THEN
               /\ resp' = [kind |-> "page", error |-> found.error, job_id |-> None]
               /\ datasets' = found.datasets
               /\ UNCHANGED <<JOBS, workers>>
           ELSE IF total = 0 THEN
               /\ resp' = PageResponse("No images found in dataset.")
               /\ datasets' = found.datasets
               /\ UNCHANGED <<JOBS, workers>>
           ELSE
               /\ JOBS' = Append(JOBS, NewJob(found.dataset[1], engine_key, iterations,
                                              bin_step_px, total))
               /\ workers' = Append(workers, NewWorker(job_id, found.dataset[1], engine_key,
                                                       iterations, bin_step_px))
               /\ datasets' = found.datasets
               /\ resp' = [kind |-> "redirect", error |-> None, job_id |-> Some(job_id)]
        /\ UNCHANGED polled
        /\ UNCHANGED <<paretoVars, runnerVars, lockVars, callVars>>

\* numeric form values
NumberTexts ==
    {None, Some(<<>>), Some(<<"0">>), Some(<<"-", "1">>), Some(<<"x">>), Some(<<"2">>)}

\* dataset_name form values
NameTexts ==
    {None, Some(<<>>), Some(<<" ">>), Some(<<"a">>), Some(<<" ", "a">>),
     Some(<<"a", "/">>), Some(<<".", ".">>), Some(<<"e">>), Some(<<"n">>), Some(<<"x">>)}

\* uploaded files
FileValues ==
    {None}
    \cup {Some([filename |-> <<>>, zip |-> "ok", images |-> 1])}
    \cup {Some([filename |-> <<"a", ".", "z">>, zip |-> "bad", images |-> 0])}
    \cup {Some([filename |-> <<"n", ".", "z">>, zip |-> "ok", images |-> 1])}
    \cup {Some([filename |-> <<"u", "/", ".", "z">>, zip |-> "ok", images |-> 1])}
    \cup {Some([filename |-> <<"u", ".", "z">>, zip |-> z, images |-> 0]) :
            z \in {"bad", "unpackfail", "nostructure", "storefail", "ok"}}
    \cup {Some([filename |-> <<"u", ".", "z">>, zip |-> "ok", images |-> 1])}

\* a well-formed request for dataset "a"
BaseRequest ==
    [iterations |-> Some(<<"2">>), bin_step_px |-> Some(<<"2">>), engine |-> Some("opencv"),
     dataset_source |-> Some("existing"), dataset_name |-> Some(<<"a">>),
     dataset_file |-> None]

\* the requests of the handler's study: every pair of numeric values, every
\* engine value, every dataset name under both spellings of the default source,
\* and every upload under the zip source and an unknown source
RouteRequests ==
    {[BaseRequest EXCEPT !.iterations = i, !.bin_step_px = b] :
        i \in NumberTexts, b \in NumberTexts}
    \cup {[BaseRequest EXCEPT !.engine = e] :
            e \in {None, Some(""), Some("dmtx"), Some("zbar")}}
    \cup {[BaseRequest EXCEPT !.dataset_name = n, !.dataset_source = src] :
            n \in NameTexts, src \in {None, Some("existing")}}
    \cup {[BaseRequest EXCEPT !.dataset_name = None, !.dataset_source = src,
                              !.dataset_file = f] :
            src \in {Some("zip"), Some("ftp")}, f \in FileValues}

\* the requests sent while workers run: one that is accepted, one for the
\* dataset without images
JobRequests ==
    { BaseRequest,
      [BaseRequest EXCEPT !.dataset_name = Some(<<"e">>)] }

(***************************************************************************)
(* web_app.py: _run_job, one worker thread per job                         *)
(***************************************************************************)
\* what a job's samples may hold: no markup file, a decodable image, an image
\* whose second decode call fails to read it, an image on which the library
\* raises another error on the first call
DecodedA == [kind |-> "ok", text |-> "a", time |-> 1]
DecodeEngineError == [kind |-> "EngineError", text |-> "", time |-> 0]
DecodeOtherError == [kind |-> "OtherError", text |-> "", time |-> 0]

JobAttempts(first, second) ==
    [k \in 1..DefaultIterations |->
        IF k = 1 THEN first ELSE IF k = 2 THEN second ELSE DecodedA]

JobSampleValues ==
    { [markup |-> "missing", module |-> "none", module_raw |-> 0, expected |-> None,
       attempts |-> JobAttempts(DecodedA, DecodedA)] }
    \cup
    { [markup |-> "ok", module |-> "num", module_raw |-> 34, expected |-> Some("a"),
       attempts |-> JobAttempts(o[1], o[2])] :
         o \in { <<DecodedA, DecodedA>>, <<DecodedA, DecodeEngineError>>,
                 <<DecodeOtherError, DecodedA>> } }

WorkerCfg(w) == [decode_iterations |-> w.iterations, module_bin_step_px |-> w.bin_step_px]

\* a _progress_cb that stores the processed count as seen
MutProgressUpdateSeenIsProcessed(state) ==
    [seen |-> state.processed, processed |-> state.processed,
     skipped_no_markup |-> state.skipped_no_markup]

\* the keyword arguments _progress_cb hands to _update_job (lines 1776-1782)
ProgressUpdate(state) ==
    [seen |-> state.seen, processed |-> state.processed,
     skipped_no_markup |-> state.skipped_no_markup]

\* a _run_job that never leaves the call of run_experiment
MutAfterRunStays(results) == "run"

\* where _run_job goes when run_experiment has returned without its `return`
\* after the "No results produced." update
MutAfterRunNoReturn(results) == "post"

\* lines 1790-1792: an empty result set ends the job, anything else is
\* post-processed
AfterRun(results) == IF results = <<>> THEN "exit" ELSE "post"

\* line 1761
WorkerStart(j) ==
    /\ workers[j].pc = "start"
    /\ JOBS' = update_job(JOBS, workers[j].job_id, [status |-> "running"])
    /\ workers' = [workers EXCEPT ![j].pc = "engine"]
    /\ UNCHANGED <<datasets, nreq, req, resp, polled>>
    /\ UNCHANGED <<paretoVars, runnerVars, lockVars, callVars>>

\* lines 1763-1767: the engine is constructed, or its constructor raises
WorkerEngine(j) ==
    /\ workers[j].pc = "engine"
    /\ \E constructed \in BOOLEAN :
          IF constructed THEN
              /\ workers' = [workers EXCEPT ![j].pc = "run"]
              /\ UNCHANGED JOBS
          ELSE
              /\ JOBS' = update_job(JOBS, workers[j].job_id,
                            [status |-> "error", error |-> Some("Failed to initialize engine")])
              /\ workers' = [workers EXCEPT ![j].pc = "exit"]
    /\ UNCHANGED <<datasets, nreq, req, resp, polled>>
    /\ UNCHANGED <<paretoVars, runnerVars, lockVars, callVars>>

\* one sample of run_experiment inside the worker, with its progress callback;
\* an exception leaving run_experiment is caught at lines 1786-1788
WorkerSample(j) ==
    /\ workers[j].pc = "run"
    /\ workers[j].loc.seen < sample_count(datasets, workers[j].dataset)
    /\ \E s \in JobSampleValues :
          LET st == SampleStep(workers[j].loc, WorkerCfg(workers[j]), s) IN
          IF st.raised THEN
              /\ JOBS' = update_job(JOBS, workers[j].job_id,
                            [status |-> "error", error |-> Some("Experiment failed")])
              /\ workers' = [workers EXCEPT ![j].pc = "exit", ![j].loc = st.loc]
          ELSE
              /\ JOBS' = IF st.notify
                         THEN update_job(JOBS, workers[j].job_id,
                                         ProgressUpdate(ProgressState(st.loc)))
                         ELSE JOBS
              /\ workers' = [workers EXCEPT ![j].loc = st.loc]
    /\ UNCHANGED <<datasets, nreq, req, resp, polled>>
    /\ UNCHANGED <<paretoVars, runnerVars, lockVars, callVars>>

\* run_experiment returns (line 1785); lines 1790-1792
WorkerRunReturns(j) ==
    /\ workers[j].pc = "run"
    /\ workers[j].loc.seen = sample_count(datasets, workers[j].dataset)
    /\ JOBS' = IF workers[j].loc.results = <<>>
               THEN update_job(JOBS, workers[j].job_id,
                               [status |-> "error", error |-> Some("No results produced.")])
               ELSE JOBS
    /\ workers' = [workers EXCEPT ![j].pc = AfterRun(workers[j].loc.results)]
    /\ UNCHANGED <<datasets, nreq, req, resp, polled>>
    /\ UNCHANGED <<paretoVars, runnerVars, lockVars, callVars>>

\* lines 1794-1813: save_results_json, build_bin_stats and build_interactive_plot
\* run outside any try block; if one raises, the thread ends there
WorkerPost(j) ==
    /\ workers[j].pc = "post"
    /\ \E succeeded \in BOOLEAN :
          IF succeeded THEN
              /\ JOBS' = update_job(JOBS, workers[j].job_id,
                            [status |-> "done",
                             json_file |-> Some("qr_experiment_data.json"),
                             html_file |-> Some("qr_experiment_plot.html"),
                             summary |-> Some([processed |-> workers[j].loc.processed,
                                               skipped_no_markup |->
                                                   workers[j].loc.skipped_no_markup])])
              /\ workers' = [workers EXCEPT ![j].pc = "exit"]
          ELSE
              /\ workers' = [workers EXCEPT ![j].pc = "died"]
              /\ UNCHANGED JOBS
    /\ UNCHANGED <<datasets, nreq, req, resp, polled>>
    /\ UNCHANGED <<paretoVars, runnerVars, lockVars, callVars>>

\* GET /progress/<job_id> (lines 1930-1944); an unknown id gets a 404
Poll(job_id) ==
    /\ polled' =
          LET job == get_job(JOBS, job_id) IN
          IF job = None THEN Some([job_id |-> job_id, found |-> FALSE])
          ELSE Some([job_id |-> job_id, found |-> TRUE,
                     status |-> job[1].status, seen |-> job[1].seen,
                     processed |-> job[1].processed,
                     skipped_no_markup |-> job[1].skipped_no_markup,
                     total |-> job[1].total, error |-> job[1].error])
    /\ polled' # polled
    /\ UNCHANGED <<JOBS, workers, datasets, nreq, req, resp>>
    /\ UNCHANGED <<paretoVars, runnerVars, lockVars, callVars>>

\* the ids an observer asks for: every registered job, and an id that no job
\* has
PollTargets == 1..(Len(JOBS) + 1)

InitWeb ==
    /\ ParetoIdle
    /\ RunnerIdle
    /\ WebIdle
    /\ LockIdle
    /\ CallIdle

RunRequest ==
    /\ nreq < MaxRequests
    /\ \E rq \in JobRequests : HandleRun(rq)

Next ==
    \/ RunRequest
    \/ \E j \in 1..Len(workers) :
          \/ WorkerStart(j)
          \/ WorkerEngine(j)
          \/ WorkerSample(j)
          \/ WorkerRunReturns(j)
          \/ WorkerPost(j)
    \/ \E job_id \in PollTargets : Poll(job_id)

Spec == InitWeb /\ [][Next]_vars

\* the thread of job j takes its next step in _run_job
WorkerStep(j) ==
    /\ j \in 1..Len(workers)
    /\ \/ WorkerStart(j)
       \/ WorkerEngine(j)
       \/ WorkerSample(j)
       \/ WorkerRunReturns(j)
       \/ WorkerPost(j)

\* Run requests and worker threads without the observers: a poll only reads
\* the registry (Poll leaves JOBS and workers as they are), so it has no part in
\* whether a job ends.
NextFair ==
    \/ RunRequest
    \/ \E j \in 1..MaxRequests : WorkerStep(j)

\* every started thread is scheduled again and again (threading.Thread.start at
\* lines 1908-1913); requests arrive as they please
SpecFair ==
    /\ InitWeb
    /\ [][NextFair]_vars
    /\ \A j \in 1..MaxRequests : WF_vars(WorkerStep(j))

\* the /run handler alone, on the full set of requests; workers are created but
\* not scheduled
RouteRequest ==
    /\ nreq < MaxRouteRequests
    /\ \E rq \in RouteRequests : HandleRun(rq)

NextRoute == RouteRequest

SpecRoute == InitWeb /\ [][NextRoute]_vars

(***************************************************************************)
(* binning.py: quantize_module_size called alone                           *)
(***************************************************************************)
\* a raw module size r >= 0 in tenths of a pixel and an integer step >= 1
QuantizeInputs == [module_size_px : 0..MaxRawTenths, step_px : 1..MaxStep]

InitQuantize ==
    /\ ParetoIdle
    /\ RunnerIdle
    /\ WebIdle
    /\ LockIdle
    /\ f_pc = "input"
    /\ f_args \in QuantizeInputs
    /\ f_ret = None

\* bin = quantize_module_size(r, step), then the bin is quantized again
CallQuantize ==
    /\ f_pc = "input"
    /\ f_pc' = "done"
    /\ f_ret' =
          LET bin == quantize_module_size(f_args.module_size_px, f_args.step_px)
          IN  [bin |-> bin, again |-> quantize_module_size(10 * bin, f_args.step_px)]
    /\ UNCHANGED f_args
    /\ UNCHANGED <<paretoVars, runnerVars, webVars, lockVars>>

NextQuantize == CallQuantize

SpecQuantize == InitQuantize /\ [][NextQuantize]_vars

(***************************************************************************)
(* binning.py: build_bin_stats called alone                                *)
(***************************************************************************)
\* Accuracies are counted in sixths (6 is 1.0, 0 is 0.0; 2, 3 and 4 are the
\* values 1/3, 1/2 and 2/3 that two or three attempts give), times in whole
\* units. A mean is kept as the pair (sum, count) it is the quotient of.
AccuracyOne == 6

\* the SampleResult fields build_bin_stats reads
MeasurementValues ==
    [module_size : {2, 4, 8}, accuracy : {0, 3, AccuracyOne}, time_total_min_sec : {1, 2}]

RECURSIVE SeqSum(_)
SeqSum(seq) == IF seq = <<>> THEN 0 ELSE Head(seq) + SeqSum(Tail(seq))

\* the keys in descending order
RECURSIVE MutSortedDescending(_)
MutSortedDescending(keys) ==
    IF keys = {} THEN <<>>
    ELSE LET m == CHOOSE x \in keys : \A y \in keys : y <= x
         IN  <<m>> \o MutSortedDescending(keys \ {m})

\* sorted(bins.keys())
RECURSIVE SortedKeys(_)
SortedKeys(keys) ==
    IF keys = {} THEN <<>>
    ELSE LET m == CHOOSE x \in keys : \A y \in keys : x <= y
         IN  <<m>> \o SortedKeys(keys \ {m})

\* bins[module_size] after the grouping loop (lines 35-37): the records of the
\* bin in input order
BinItems(results, module_size) ==
    SelectSeq(results, LAMBDA record : record.module_size = module_size)

\* the BinStats built at lines 41-60
BinStats(module_size, items) ==
    [module_size |-> module_size,
     count |-> Len(items),
     mean_accuracy |-> [sum |-> SeqSum([i \in 1..Len(items) |-> items[i].accuracy]),
                        count |-> Len(items)],
     count_acc1 |-> Len(SelectSeq(items, LAMBDA r : r.accuracy = AccuracyOne)),
     count_acc0 |-> Len(SelectSeq(items, LAMBDA r : r.accuracy = 0)),
     mean_time |-> [sum |-> SeqSum([i \in 1..Len(items) |-> items[i].time_total_min_sec]),
                    count |-> Len(items)]]

\* build_bin_stats(results)
build_bin_stats(results) ==
    LET order == SortedKeys({results[i].module_size : i \in 1..Len(results)})
    IN  [k \in 1..Len(order) |-> BinStats(order[k], BinItems(results, order[k]))]

BinStatsInputs == UNION {[1..n -> MeasurementValues] : n \in 0..MaxRecords}

InitBinStats ==
    /\ ParetoIdle
    /\ RunnerIdle
    /\ WebIdle
    /\ LockIdle
    /\ f_pc = "input"
    /\ f_args \in BinStatsInputs
    /\ f_ret = None

CallBinStats ==
    /\ f_pc = "input"
    /\ f_pc' = "done"
    /\ f_ret' = build_bin_stats(f_args)
    /\ UNCHANGED f_args
    /\ UNCHANGED <<paretoVars, runnerVars, webVars, lockVars>>

NextBinStats == CallBinStats

SpecBinStats == InitBinStats /\ [][NextBinStats]_vars

(***************************************************************************)
(* pareto.py: aggregate_module_sizes called alone                          *)
(***************************************************************************)
\* n_min of the signature (line 46), also what build_interactive_plot passes
DefaultNMin == 10

\* the minimum supports tried
NMinValues == {0, 1, 2, DefaultNMin}

\* time_attr_candidates (line 47), in the order they are tried
TimeAttrCandidates == <<"time_total_min_sec", "time_total_min", "time">>

\* The items handed in: module sizes in tenths (None when the item has none),
\* accuracies in sixths, times in whole units. An item is a SampleResult (its
\* time in time_total_min_sec), a dict with only "time", or an item with no
\* time under any candidate name.
AggregateItemValues ==
    {[module_size |-> m, accuracy |-> t.accuracy,
      time_total_min_sec |-> t.time_total_min_sec,
      time_total_min |-> None, time |-> t.time] :
        m \in {None, Some(20), Some(25), Some(35)},
        t \in {[time_total_min_sec |-> Some(1), time |-> None, accuracy |-> Some(AccuracyOne)],
               [time_total_min_sec |-> None, time |-> Some(3), accuracy |-> None],
               [time_total_min_sec |-> None, time |-> None, accuracy |-> Some(0)]}}

\* _get_time_value(item, keys): the first candidate that is not None
RECURSIVE get_time_value(_, _)
get_time_value(item, keys) ==
    IF keys = <<>> THEN None
    ELSE IF item[Head(keys)] # None THEN item[Head(keys)]
    ELSE get_time_value(item, Tail(keys))

\* int(round(float(module_size))) at line 61, module_size in tenths
module_size_int(module_size) == RoundHalfEven(module_size[1], 10)

\* groups[module_size] after the loop at lines 57-62: the items of the group in
\* input order; an item without module_size joins no group
GroupItems(results, module_size) ==
    SelectSeq(results, LAMBDA item :
        /\ item.module_size # None
        /\ module_size_int(item.module_size) = module_size)

\* the keys of groups
GroupKeys(results) ==
    {module_size_int(results[i].module_size) :
        i \in {j \in 1..Len(results) : results[j].module_size # None}}

\* the values of the items that have one (lines 66-67 and 70-71), unwrapped
Present(values) ==
    LET kept == SelectSeq(values, LAMBDA v : v # None)
    IN  [i \in 1..Len(kept) |-> kept[i][1]]

\* seq with x put before its first element greater than x
RECURSIVE InsertSorted(_, _)
InsertSorted(x, seq) ==
    IF seq = <<>> THEN <<x>>
    ELSE IF x <= Head(seq) THEN <<x>> \o seq
    ELSE <<Head(seq)>> \o InsertSorted(x, Tail(seq))

\* the values in ascending order, as np.median and np.percentile order them
RECURSIVE SortedValues(_)
SortedValues(seq) ==
    IF seq = <<>> THEN <<>> ELSE InsertSorted(Head(seq), SortedValues(Tail(seq)))

\* np.median(times) in halves: the middle value, or the mean of the two middle
\* ones
Median(times) ==
    LET s == SortedValues(times)
        n == Len(s)
    IN  IF n % 2 = 1 THEN 2 * s[(n + 1) \div 2] ELSE s[n \div 2] + s[n \div 2 + 1]

\* np.percentile(times, 90) in tenths: linear interpolation at the position
\* 0.9 * (n - 1) of the ordered values
Percentile90(times) ==
    LET s == SortedValues(times)
        n == Len(s)
        lo == (9 * (n - 1)) \div 10
        rem == (9 * (n - 1)) % 10
    IN  IF rem = 0 THEN 10 * s[lo + 1]
        ELSE 10 * s[lo + 1] + rem * (s[lo + 2] - s[lo + 1])

\* support only above n_min
MutHasSupportAbove(n, n_min) == n > n_min

\* n < n_min at line 74 is false
HasSupport(n, n_min) == n >= n_min

\* the dict appended at lines 81-89; accuracy_mean is the pair (sum, count) it
\* is the quotient of, (0, 1) when no item has an accuracy
AggregatePoint(module_size, times, accuracies) ==
    [module_size |-> module_size,
     n |-> Len(times),
     time_median |-> Median(times),
     time_p90 |-> Percentile90(times),
     accuracy_mean |-> IF accuracies # <<>>
                       THEN [sum |-> SeqSum(accuracies), count |-> Len(accuracies)]
                       ELSE [sum |-> 0, count |-> 1]]

\* the loop at lines 65-89 over the sorted groups from position k on
RECURSIVE AggregateFrom(_, _, _, _)
AggregateFrom(results, order, k, n_min) ==
    IF k > Len(order) THEN <<>>
    ELSE LET items == GroupItems(results, order[k])
             times == Present([i \in 1..Len(items) |->
                                  get_time_value(items[i], TimeAttrCandidates)])
             accuracies == Present([i \in 1..Len(items) |-> items[i].accuracy])
             rest == AggregateFrom(results, order, k + 1, n_min)
         IN  IF times = <<>> THEN rest
             ELSE IF ~HasSupport(Len(times), n_min) THEN rest
             ELSE <<AggregatePoint(order[k], times, accuracies)>> \o rest

\* aggregate_module_sizes(results, n_min)
aggregate_module_sizes(results, n_min) ==
    AggregateFrom(results, SortedKeys(GroupKeys(results)), 1, n_min)

AggregateInputs ==
    [results : UNION {[1..n -> AggregateItemValues] : n \in 0..MaxRecords},
     n_min : NMinValues]

InitAggregate ==
    /\ ParetoIdle
    /\ RunnerIdle
    /\ WebIdle
    /\ LockIdle
    /\ f_pc = "input"
    /\ f_args \in AggregateInputs
    /\ f_ret = None

CallAggregate ==
    /\ f_pc = "input"
    /\ f_pc' = "done"
    /\ f_ret' = aggregate_module_sizes(f_args.results, f_args.n_min)
    /\ UNCHANGED f_args
    /\ UNCHANGED <<paretoVars, runnerVars, webVars, lockVars>>

NextAggregate == CallAggregate

SpecAggregate == InitAggregate /\ [][NextAggregate]_vars

(***************************************************************************)
(* web_app.py: run_single next to run_experiment on the same sample        *)
(***************************************************************************)
\* One sample with readable markup and a module size, the decoder's outcomes
\* on it, and the attempt count both the job and the configuration carry.
\* expected is None when the markup has no value.
SingleInputs ==
    [expected : {None, Some("a"), Some("b")},
     attempts : [1..AttemptCount -> DecodeOutcomes],
     iterations : 0..MaxIterations]

\* the decode loop of run_single (lines 2158-2166) from call k on; a decoded
\* str is appended as it is
RECURSIVE SingleLoop(_, _, _, _, _)
SingleLoop(attempts, k, iterations, decoded_values, times) ==
    IF k > iterations THEN
        [end |-> "ok", decoded_values |-> decoded_values, times |-> times]
    ELSE IF attempts[k].kind = "EngineError" THEN
        [end |-> "EngineError", decoded_values |-> decoded_values, times |-> times]
    ELSE IF attempts[k].kind = "OtherError" THEN
        [end |-> "raised", decoded_values |-> decoded_values, times |-> times]
    ELSE SingleLoop(attempts, k + 1, iterations,
                    Append(decoded_values, attempts[k].text),
                    Append(times, attempts[k].time))

\* run_single from the markup on (lines 2148-2183): the JSON response, or the
\* exception that leaves the handler
run_single(expected, attempts, iterations) ==
    IF expected = None THEN [kind |-> "error", status |-> 400]
    ELSE LET dec == SingleLoop(attempts, 1, Max(1, iterations), <<>>, <<>>)
         IN  IF dec.end = "EngineError" THEN [kind |-> "error", status |-> 500]
             ELSE IF dec.end = "raised" THEN [kind |-> "raised", status |-> 500]
             ELSE IF dec.times = <<>> THEN [kind |-> "error", status |-> 500]
             ELSE LET decoded_best == MostCommon(dec.decoded_values)
                  IN  [kind |-> "json", status |-> 200,
                       decoded_values |-> dec.decoded_values,
                       decoded_best |-> decoded_best,
                       time_total_min_sec |-> MinOf(dec.times),
                       accuracy |-> IF decoded_best = expected[1] THEN 1 ELSE 0]

\* the Measurement run_experiment records for the sample (None when it records
\* none), with the sample first in a dataset of bin step 1
MeasurementOf(expected, attempts, iterations) ==
    LET s == [markup |-> "ok", module |-> "num", module_raw |-> 34,
              expected |-> expected, attempts |-> attempts]
        cfg == [decode_iterations |-> iterations, module_bin_step_px |-> 1]
        st == SampleStep(InitialLocals, cfg, s)
    IN  IF st.raised \/ st.loc.results = <<>> THEN None
        ELSE Some(st.loc.results[1])

InitSingle ==
    /\ ParetoIdle
    /\ RunnerIdle
    /\ WebIdle
    /\ LockIdle
    /\ f_pc = "input"
    /\ f_args \in SingleInputs
    /\ f_ret = None

\* the experiment and the re-run of the sample, one after the other
CallSingle ==
    /\ f_pc = "input"
    /\ f_pc' = "done"
    /\ f_ret' = [measurement |-> MeasurementOf(f_args.expected, f_args.attempts,
                                               f_args.iterations),
                 single |-> run_single(f_args.expected, f_args.attempts,
                                       f_args.iterations)]
    /\ UNCHANGED f_args
    /\ UNCHANGED <<paretoVars, runnerVars, webVars, lockVars>>

NextSingle == CallSingle

SpecSingle == InitSingle /\ [][NextSingle]_vars

(***************************************************************************)
(* web_app.py: _update_job and _get_job under JOBS_LOCK, step by step      *)
(***************************************************************************)
\* The registry holds one job; its worker runs _run_job and an observer calls
\* _get_job again and again. Inside the lock, job.update(updates) stores one key
\* at a time and dict(job) copies one key at a time.

\* key order of the job dict (lines 1722-1736)
JobKeyOrder ==
    <<"status", "dataset", "engine", "iterations", "bin_step_px", "total", "seen",
      "processed", "skipped_no_markup", "error", "json_file", "html_file", "summary">>

RECURSIVE KeysIn(_, _)
KeysIn(order, keys) ==
    IF order = <<>> THEN <<>>
    ELSE IF Head(order) \in keys THEN <<Head(order)>> \o KeysIn(Tail(order), keys)
    ELSE KeysIn(Tail(order), keys)

\* a lock that lets every thread in
MutAcquireAlways(holders) == TRUE

\* threading.Lock: acquired only while no thread holds it
CanAcquire(holders) == holders = {}

\* a with block that ends without giving the lock back
MutReleaseNothing(holders, who) == holders

\* the end of a with JOBS_LOCK block: the thread gives the lock back
Release(holders, who) == holders \ {who}

\* The next step of _run_job (lines 1761-1813) for worker w: the worker
\* afterwards and the keyword arguments of the _update_job call it makes, if any
WorkerMoves(w, fs) ==
    IF w.pc = "start" THEN
        {[worker |-> [w EXCEPT !.pc = "engine"], updates |-> Some([status |-> "running"])]}
    ELSE IF w.pc = "engine" THEN
        {[worker |-> [w EXCEPT !.pc = "run"], updates |-> None],
         [worker |-> [w EXCEPT !.pc = "exit"],
          updates |-> Some([status |-> "error",
                            error |-> Some("Failed to initialize engine")])]}
    ELSE IF w.pc = "run" /\ w.loc.seen < sample_count(fs, w.dataset) THEN
        { LET st == SampleStep(w.loc, WorkerCfg(w), s) IN
          IF st.raised THEN
              [worker |-> [w EXCEPT !.pc = "exit", !.loc = st.loc],
               updates |-> Some([status |-> "error", error |-> Some("Experiment failed")])]
          ELSE
              [worker |-> [w EXCEPT !.loc = st.loc],
               updates |-> IF st.notify THEN Some(ProgressUpdate(ProgressState(st.loc)))
                           ELSE None] : s \in JobSampleValues }
    ELSE IF w.pc = "run" THEN
        {[worker |-> [w EXCEPT !.pc = AfterRun(w.loc.results)],
          updates |-> IF w.loc.results = <<>>
                      THEN Some([status |-> "error", error |-> Some("No results produced.")])
                      ELSE None]}
    ELSE IF w.pc = "post" THEN
        {[worker |-> [w EXCEPT !.pc = "died"], updates |-> None],
         [worker |-> [w EXCEPT !.pc = "exit"],
          updates |-> Some([status |-> "done",
                            json_file |-> Some("qr_experiment_data.json"),
                            html_file |-> Some("qr_experiment_plot.html"),
                            summary |-> Some([processed |-> w.loc.processed,
                                              skipped_no_markup |->
                                                  w.loc.skipped_no_markup])])]}
    ELSE {}

\* the state right after POST /run has registered job 1 for dataset "a" and
\* started its thread
InitLock ==
    /\ ParetoIdle
    /\ RunnerIdle
    /\ CallIdle
    /\ JOBS = <<NewJob(<<"a">>, "opencv", 2, 2, sample_count(InitialDatasets, <<"a">>))>>
    /\ workers = <<NewWorker(1, <<"a">>, "opencv", 2, 2)>>
    /\ datasets = InitialDatasets
    /\ nreq = 1
    /\ req = BaseRequest
    /\ resp = [kind |-> "redirect", error |-> None, job_id |-> Some(1)]
    /\ polled = None
    /\ JOBS_LOCK = {}
    /\ w_call = None
    /\ r_call = None
    /\ snapshot = None
    /\ history = {JOBS[1]}

\* the worker runs on outside the lock up to its next _update_job call
LockWorkerStep ==
    /\ w_call = None
    /\ \E m \in WorkerMoves(workers[1], datasets) :
          /\ workers' = <<m.worker>>
          /\ w_call' = IF m.updates = None THEN None
                       ELSE Some([at |-> "enter", updates |-> m.updates[1],
                                  todo |-> KeysIn(JobKeyOrder, DOMAIN m.updates[1])])
    /\ UNCHANGED <<JOBS, datasets, nreq, req, resp, polled>>
    /\ UNCHANGED <<JOBS_LOCK, r_call, snapshot, history>>
    /\ UNCHANGED <<paretoVars, runnerVars, callVars>>

\* _update_job: with JOBS_LOCK (line 1740)
UpdateAcquire ==
    /\ w_call # None
    /\ w_call[1].at = "enter"
    /\ CanAcquire(JOBS_LOCK)
    /\ JOBS_LOCK' = JOBS_LOCK \cup {"worker"}
    /\ w_call' = Some([w_call[1] EXCEPT !.at = "update"])
    /\ UNCHANGED <<JOBS, workers, datasets, nreq, req, resp, polled>>
    /\ UNCHANGED <<r_call, snapshot, history>>
    /\ UNCHANGED <<paretoVars, runnerVars, callVars>>

\* job.update(updates) stores the next key (line 1744)
UpdateStoreKey ==
    /\ w_call # None
    /\ w_call[1].at = "update"
    /\ w_call[1].todo # <<>>
    /\ JOBS' = [JOBS EXCEPT ![1][Head(w_call[1].todo)] =
                                w_call[1].updates[Head(w_call[1].todo)]]
    /\ w_call' = Some([w_call[1] EXCEPT !.todo = Tail(@)])
    /\ UNCHANGED <<workers, datasets, nreq, req, resp, polled>>
    /\ UNCHANGED <<JOBS_LOCK, r_call, snapshot, history>>
    /\ UNCHANGED <<paretoVars, runnerVars, callVars>>

\* the with block of _update_job ends
UpdateRelease ==
    /\ w_call # None
    /\ w_call[1].at = "update"
    /\ w_call[1].todo = <<>>
    /\ JOBS_LOCK' = Release(JOBS_LOCK, "worker")
    /\ w_call' = None
    /\ history' = history \cup {JOBS[1]}
    /\ UNCHANGED <<JOBS, workers, datasets, nreq, req, resp, polled>>
    /\ UNCHANGED <<r_call, snapshot>>
    /\ UNCHANGED <<paretoVars, runnerVars, callVars>>

\* a handler calls _get_job(job_id)
GetJobEnter ==
    /\ r_call = None
    /\ r_call' = Some([at |-> "enter", copy |-> [k \in {} |-> None], todo |-> JobKeyOrder])
    /\ UNCHANGED <<JOBS, workers, datasets, nreq, req, resp, polled>>
    /\ UNCHANGED <<JOBS_LOCK, w_call, snapshot, history>>
    /\ UNCHANGED <<paretoVars, runnerVars, callVars>>

\* _get_job: with JOBS_LOCK (line 1748)
GetJobAcquire ==
    /\ r_call # None
    /\ r_call[1].at = "enter"
    /\ CanAcquire(JOBS_LOCK)
    /\ JOBS_LOCK' = JOBS_LOCK \cup {"observer"}
    /\ r_call' = Some([r_call[1] EXCEPT !.at = "copy"])
    /\ UNCHANGED <<JOBS, workers, datasets, nreq, req, resp, polled>>
    /\ UNCHANGED <<w_call, snapshot, history>>
    /\ UNCHANGED <<paretoVars, runnerVars, callVars>>

\* dict(job) copies the next key (line 1750)
GetJobCopyKey ==
    /\ r_call # None
    /\ r_call[1].at = "copy"
    /\ r_call[1].todo # <<>>
    /\ r_call' = Some([r_call[1] EXCEPT
                          !.copy = @ @@ (Head(r_call[1].todo) :> JOBS[1][Head(r_call[1].todo)]),
                          !.todo = Tail(@)])
    /\ UNCHANGED <<JOBS, workers, datasets, nreq, req, resp, polled>>
    /\ UNCHANGED <<JOBS_LOCK, w_call, snapshot, history>>
    /\ UNCHANGED <<paretoVars, runnerVars, callVars>>

\* _get_job returns the copy and its with block ends
GetJobReturn ==
    /\ r_call # None
    /\ r_call[1].at = "copy"
    /\ r_call[1].todo = <<>>
    /\ snapshot' = Some(r_call[1].copy)
    /\ JOBS_LOCK' = Release(JOBS_LOCK, "observer")
    /\ r_call' = None
    /\ UNCHANGED <<JOBS, workers, datasets, nreq, req, resp, polled>>
    /\ UNCHANGED <<w_call, history>>
    /\ UNCHANGED <<paretoVars, runnerVars, callVars>>

NextLock ==
    \/ LockWorkerStep
    \/ UpdateAcquire
    \/ UpdateStoreKey
    \/ UpdateRelease
    \/ GetJobEnter
    \/ GetJobAcquire
    \/ GetJobCopyKey
    \/ GetJobReturn

SpecLock == InitLock /\ [][NextLock]_vars

(***************************************************************************)
(* Claims about pareto_front (checked under SpecPareto)                    *)
(***************************************************************************)
ParetoDone == p_pc = "done"

FrontSet == {front[i] : i \in 1..Len(front)}

\* dominance as the documentation states it: <= on every minimize key, >= on
\* every maximize key, strictly better on at least one
ClaimDominates(a, b) ==
    /\ \A i \in 1..Len(minimize_keys) : a[minimize_keys[i]] <= b[minimize_keys[i]]
    /\ \A i \in 1..Len(maximize_keys) : a[maximize_keys[i]] >= b[maximize_keys[i]]
    /\ \/ \E i \in 1..Len(minimize_keys) : a[minimize_keys[i]] < b[minimize_keys[i]]
       \/ \E i \in 1..Len(maximize_keys) : a[maximize_keys[i]] > b[maximize_keys[i]]

EqualOnKeys(a, b) ==
    /\ \A i \in 1..Len(minimize_keys) : a[minimize_keys[i]] = b[minimize_keys[i]]
    /\ \A i \in 1..Len(maximize_keys) : a[maximize_keys[i]] = b[maximize_keys[i]]

ScenarioCall ==
    /\ ParetoDone
    /\ points = ScenarioPoints
    /\ minimize_keys = <<"time_median">>
    /\ maximize_keys = <<"accuracy_mean">>

\* C6 as stated: for the points (bin 2, 0.2 s, 1.0), (bin 4, 0.15 s, 0.5),
\* (bin 6, 0.12 s, 0.6), minimizing time_median and maximizing accuracy,
\* pareto_front returns all three points, none of them dominating another.
C6_ScenarioFrontIsAll ==
    ScenarioCall =>
        /\ Len(front) = 3
        /\ FrontSet = {1, 2, 3}
        /\ \A i, j \in 1..3 : ~ClaimDominates(points[i], points[j])

\* C6 amended: for these points pareto_front returns exactly two points, bin 6
\* followed by bin 2; bin 4 is left out because bin 6 dominates it (0.12 s < 0.15 s
\* and 0.6 > 0.5), and no other pair is in the dominance relation.
C6_ScenarioFront ==
    ScenarioCall =>
        /\ FrontPoints = <<ScenarioPoints[3], ScenarioPoints[1]>>
        /\ \A i, j \in 1..3 :
              ClaimDominates(points[i], points[j]) <=> (i = 3 /\ j = 2)

C6_Witness == ScenarioCall /\ Len(front) = 2

\* C7: no point returned by pareto_front is dominated by any point of the input
\* list, for every list and every choice of keys.
C7_FrontNotDominated ==
    ParetoDone =>
        \A i \in FrontSet : \A j \in 1..Len(points) :
            ~ClaimDominates(points[j], points[i])

\* a call that drops a dominated point and returns another
C7_Witness ==
    /\ ParetoDone
    /\ front # <<>>
    /\ \E j \in 1..Len(points) : j \notin FrontSet

\* C8: every input point is returned or dominated by a returned point; points
\* equal on all keys are all returned or all dropped.
C8_FrontCovers ==
    ParetoDone =>
        /\ \A j \in 1..Len(points) :
              \/ j \in FrontSet
              \/ \E i \in FrontSet : ClaimDominates(points[i], points[j])
        /\ \A j, k \in 1..Len(points) :
              EqualOnKeys(points[j], points[k]) => (j \in FrontSet <=> k \in FrontSet)

\* a call with two points equal on all keys, both dropped, and one with two such
\* points both returned is reached as well (C8_Witness names the first)
C8_Witness ==
    /\ ParetoDone
    /\ Len(minimize_keys) + Len(maximize_keys) > 0
    /\ \E j, k \in 1..Len(points) :
          /\ j # k
          /\ EqualOnKeys(points[j], points[k])
          /\ j \notin FrontSet
          /\ k \notin FrontSet

\* a is placed no later than b: minimize keys ascending, then maximize keys
\* descending, then bin ascending
RECURSIVE ClaimOrderLeq(_, _, _, _)
ClaimOrderLeq(a, b, mink, maxk) ==
    IF mink # <<>> THEN
        IF a[Head(mink)] # b[Head(mink)] THEN a[Head(mink)] < b[Head(mink)]
        ELSE ClaimOrderLeq(a, b, Tail(mink), maxk)
    ELSE IF maxk # <<>> THEN
        IF a[Head(maxk)] # b[Head(maxk)] THEN a[Head(maxk)] > b[Head(maxk)]
        ELSE ClaimOrderLeq(a, b, mink, Tail(maxk))
    ELSE a.module_size <= b.module_size

\* C9: the frontier is emitted ordered by (minimize keys ascending, maximize keys
\* descending, bin ascending); members that tie on all of these keep the order of
\* the input list, so the sequence is a function of the input list alone.
C9_FrontOrdered ==
    ParetoDone =>
        \A i, j \in 1..Len(front) :
            i < j =>
                /\ ClaimOrderLeq(points[front[i]], points[front[j]],
                                 minimize_keys, maximize_keys)
                /\ ClaimOrderLeq(points[front[j]], points[front[i]],
                                 minimize_keys, maximize_keys) => front[i] < front[j]

\* two returned points that tie on the keys and came in descending bin order
C9_Witness ==
    /\ ParetoDone
    /\ \E i, j \in 1..Len(front) :
          /\ i < j
          /\ front[j] < front[i]
          /\ EqualOnKeys(points[front[i]], points[front[j]])
          /\ points[front[i]].module_size < points[front[j]].module_size

(***************************************************************************)
(* Claims about run_experiment (checked under SpecRunner)                  *)
(***************************************************************************)
CountersAddUp(c) ==
    c.seen = c.processed + c.skipped_no_markup + c.skipped_bad_module
                + c.skipped_image_read

\* C10: whenever the run completes, at completion and at every progress callback
\* before it, seen = processed + skipped_no_markup + skipped_bad_module +
\* skipped_image_read, and the number of Measurements returned equals processed.
C10_RunnerTotals ==
    /\ r_cb # None => CountersAddUp(r_cb[1])
    /\ r_pc = "returned" =>
          /\ CountersAddUp(r_loc)
          /\ r_loc.seen = r_total
          /\ Len(r_ret[1].results) = r_ret[1].summary.processed
          /\ r_ret[1].summary = [k \in DOMAIN r_ret[1].summary |-> r_loc[k]]

\* a completed run that kept one sample and lost another to an image-read failure
C10_Witness ==
    /\ r_pc = "returned"
    /\ r_cb_count = 2
    /\ r_loc.processed = 1
    /\ r_loc.skipped_image_read = 1

\* C11: no failure confined to one sample aborts the run: whatever a sample
\* holds (unreadable or missing markup, missing or malformed module size, a
\* decoder that raises on some attempt), run_experiment counts it as skipped and
\* goes on, so no exception ever leaves the loop.
C11_NoSampleAbortsRun == r_pc # "raised"

\* C21: run_experiment fails fatally (does not return a result) when the
\* dataset is missing or has no samples, which both leave iter_qr_samples with
\* nothing to enumerate, and returns normally in every other case.
C21_FatalOnlyWithoutSamples ==
    /\ r_total = 0 => r_pc # "returned"
    /\ r_total > 0 => r_pc # "raised"

\* C25: with a progress callback, run_experiment invokes it exactly once per
\* enumerated sample, kept or skipped, after the sample's counters are updated:
\* after every sample the number of calls equals the number of samples
\* enumerated, and the last call carried the current counters, its seen being
\* the number of the call (1 on the first call, one more on each later call).
C25_OneCallbackPerSample ==
    /\ r_cb_count = r_loc.seen
    /\ r_cb # None =>
          /\ r_cb[1].seen = r_cb_count
          /\ r_cb[1] = ProgressState(r_loc)

(***************************************************************************)
(* Claims about one pass of the loop body (checked under SpecSample)       *)
(***************************************************************************)
\* the attempt count of the pass
Iterations == Max(1, f_args.cfg.decode_iterations)

\* the sample reaches the attempt loop
Decodable == f_args.s.markup = "ok" /\ f_args.s.module = "num"

\* attempt k is the first that does not return, and it raises the engine's
\* image-read failure
ImageReadFailsAt(k) ==
    /\ Decodable
    /\ k \in 1..Iterations
    /\ f_args.s.attempts[k].kind = "EngineError"
    /\ \A j \in 1..(k - 1) : f_args.s.attempts[j].kind = "ok"

\* C24: if decode attempt k of a sample raises the engine's image-read failure,
\* the runner makes no further attempt on the sample, increments
\* skipped_image_read by exactly 1, leaves processed and the other skip counters
\* unchanged, emits no Measurement and discards attempts 1..k-1; so every
\* emitted Measurement is built from exactly decode_iterations (coerced to >= 1)
\* attempts.
C24_ImageReadFailureSkipsSample ==
    f_pc = "done" =>
        /\ \A k \in 1..AttemptCount :
              ImageReadFailsAt(k) =>
                 /\ f_ret.calls = k
                 /\ ~f_ret.step.raised
                 /\ f_ret.step.loc.skipped_image_read = f_args.loc.skipped_image_read + 1
                 /\ f_ret.step.loc.processed = f_args.loc.processed
                 /\ f_ret.step.loc.skipped_no_markup = f_args.loc.skipped_no_markup
                 /\ f_ret.step.loc.skipped_bad_module = f_args.loc.skipped_bad_module
                 /\ f_ret.step.loc.results = f_args.loc.results
        /\ f_ret.step.loc.results # f_args.loc.results =>
                 /\ f_ret.calls = Iterations
                 /\ \A k \in 1..Iterations : f_args.s.attempts[k].kind = "ok"
                 /\ Len(f_ret.step.loc.results) = Len(f_args.loc.results) + 1
                 /\ LET m == f_ret.step.loc.results[Len(f_ret.step.loc.results)]
                    IN  /\ m.decode_iterations = Iterations
                        /\ m.accuracy.den = Iterations

\* the second of two attempts fails on a sample that is not the first of the
\* run: the decoded first attempt is dropped and only skipped_image_read moves
C24_Witness ==
    /\ f_pc = "done"
    /\ f_args.loc.processed = 1
    /\ Iterations = 2
    /\ ImageReadFailsAt(2)
    /\ f_args.s.attempts[1].text = "a"
    /\ f_ret.calls = 2
    /\ f_ret.step.loc.skipped_image_read = 2
    /\ Len(f_ret.step.loc.results) = 1

\* C27: for every configuration, decode_iterations < 1 and module_bin_step_px
\* < 1 included, the Measurement a pass emits records an attempt count >= 1
\* equal to the number of decode attempts made, and a bin step >= 1 equal to the
\* step its module size was quantized with.
C27_RecordedCountsAreEffective ==
    (f_pc = "done" /\ f_ret.step.loc.results # f_args.loc.results) =>
        LET m == f_ret.step.loc.results[Len(f_ret.step.loc.results)]
        IN  /\ m.decode_iterations >= 1
            /\ m.decode_iterations = f_ret.calls
            /\ m.module_bin_step_px >= 1
            /\ m.module_bin_step_px = Max(1, f_args.cfg.module_bin_step_px)

(***************************************************************************)
(* Claims about quantize_module_size (checked under SpecQuantize)          *)
(***************************************************************************)
\* n is an integer nearest to num / den, the even one when two are as near
IsRounded(n, num, den) ==
    /\ \A m \in 0..(num + 1) :
          (2 * (IF n * den >= num THEN n * den - num ELSE num - n * den))
              <= (2 * (IF m * den >= num THEN m * den - num ELSE num - m * den))
    /\ (2 * (IF n * den >= num THEN n * den - num ELSE num - n * den) = den) => n % 2 = 0

\* round(num / den) as the language defines it
Rounded(num, den) == CHOOSE n \in 0..(num + 1) : IsRounded(n, num, den)

\* the bin the formula of the claim gives
ClaimedBin(r, step) ==
    IF step = 1 THEN Max(1, Rounded(r, 10))
    ELSE Max(step, Rounded(Rounded(r, 10), step) * step)

\* C17: for every raw module size r >= 0 and integer step >= 1,
\* quantize_module_size(r, step) is max(step, round(round(r)/step)*step) when
\* step > 1 and max(1, round(r)) when step = 1, hence a positive integer that is
\* at least step; raw 3.4, 3.6 and 7.1 with step 2 give 4, 4 and 8.
C17_QuantizeFormula ==
    f_pc = "done" =>
        /\ f_ret.bin = ClaimedBin(f_args.module_size_px, f_args.step_px)
        /\ f_ret.bin >= 1
        /\ f_ret.bin >= f_args.step_px
        /\ (f_args.step_px = 2 /\ f_args.module_size_px \in {34, 36}) => f_ret.bin = 4
        /\ (f_args.step_px = 2 /\ f_args.module_size_px = 71) => f_ret.bin = 8

\* raw 7.1 with step 2: round(7.1) = 7 and 7 / 2 is the half 3.5, rounded to the
\* even 4
C17_Witness ==
    /\ f_pc = "done"
    /\ f_args = [module_size_px |-> 71, step_px |-> 2]
    /\ f_ret.bin = 8

\* C18: quantization is idempotent: for every raw module size r >= 0 and integer
\* step >= 1, quantizing the bin of r again with the same step gives that bin.
C18_QuantizeIdempotent == f_pc = "done" => f_ret.again = f_ret.bin

\* raw 2.5 with step 3 is lifted to the bin 3, which quantizes to itself
C18_Witness ==
    /\ f_pc = "done"
    /\ f_args = [module_size_px |-> 25, step_px |-> 3]
    /\ f_ret = [bin |-> 3, again |-> 3]

(***************************************************************************)
(* Claims about build_bin_stats (checked under SpecBinStats)               *)
(***************************************************************************)
\* positions of the input records in bin b
InBin(b) == {i \in 1..Len(f_args) : f_args[i].module_size = b}

\* C19: build_bin_stats returns exactly one entry per distinct bin of its input,
\* in ascending bin order; count is the number of records of the bin, count_acc1
\* the number of them with accuracy exactly 1.0 and count_acc0 the number with
\* accuracy exactly 0.0; so the counts sum to the number of records and
\* count_acc1 + count_acc0 <= count in every bin. Two records of bin 4 with
\* accuracy 1.0 and one of bin 8 with accuracy 0.0 give bin 4: count 2, mean
\* accuracy 1.0, 2 and 0; bin 8: count 1, mean accuracy 0.0, 0 and 1.
C19_BinStats ==
    f_pc = "done" =>
        /\ {f_ret[k].module_size : k \in 1..Len(f_ret)}
              = {f_args[i].module_size : i \in 1..Len(f_args)}
        /\ \A k \in 1..(Len(f_ret) - 1) : f_ret[k].module_size < f_ret[k + 1].module_size
        /\ \A k \in 1..Len(f_ret) :
              /\ f_ret[k].count = Cardinality(InBin(f_ret[k].module_size))
              /\ f_ret[k].count_acc1 =
                    Cardinality({i \in InBin(f_ret[k].module_size) :
                                    f_args[i].accuracy = AccuracyOne})
              /\ f_ret[k].count_acc0 =
                    Cardinality({i \in InBin(f_ret[k].module_size) : f_args[i].accuracy = 0})
              /\ f_ret[k].count_acc1 + f_ret[k].count_acc0 <= f_ret[k].count
        /\ SeqSum([k \in 1..Len(f_ret) |-> f_ret[k].count]) = Len(f_args)
        /\ (/\ Len(f_args) = 3
            /\ \A i \in 1..3 : f_args[i].module_size = (IF i = 3 THEN 8 ELSE 4)
            /\ \A i \in 1..3 : f_args[i].accuracy = (IF i = 3 THEN 0 ELSE AccuracyOne)) =>
              /\ Len(f_ret) = 2
              /\ f_ret[1].module_size = 4
              /\ f_ret[1].count = 2
              /\ f_ret[1].mean_accuracy.sum = AccuracyOne * f_ret[1].mean_accuracy.count
              /\ f_ret[1].count_acc1 = 2
              /\ f_ret[1].count_acc0 = 0
              /\ f_ret[2].module_size = 8
              /\ f_ret[2].count = 1
              /\ f_ret[2].mean_accuracy.sum = 0
              /\ f_ret[2].count_acc1 = 0
              /\ f_ret[2].count_acc0 = 1

\* records given as bins 8, 4, 8 come back as bin 4 then bin 8, and bin 8 holds
\* an accuracy between 0 and 1, so its two counts do not add up to its count
C19_Witness ==
    /\ f_pc = "done"
    /\ Len(f_args) = 3
    /\ f_args[1].module_size = 8
    /\ f_args[2].module_size = 4
    /\ f_args[3].module_size = 8
    /\ f_args[1].accuracy = 3
    /\ Len(f_ret) = 2
    /\ f_ret[1].module_size = 4
    /\ f_ret[2].count = 2
    /\ f_ret[2].count_acc1 + f_ret[2].count_acc0 < 2

(***************************************************************************)
(* Claims about aggregate_module_sizes (checked under SpecAggregate)       *)
(***************************************************************************)
\* positions of the input items that fall into bin b
SamplesIn(b) ==
    {i \in 1..Len(f_args.results) :
        /\ f_args.results[i].module_size # None
        /\ module_size_int(f_args.results[i].module_size) = b}

\* the item has a value under one of the candidate time names
HasTime(item) == \E k \in 1..Len(TimeAttrCandidates) : item[TimeAttrCandidates[k]] # None

\* positions of the items of bin b that carry a time
TimedIn(b) == {i \in SamplesIn(b) : HasTime(f_args.results[i])}

\* the bins that hold at least one input item
InputBins == {b \in 0..4 : SamplesIn(b) # {}}

\* the returned points are in strictly ascending bin order and each is the
\* point of a bin of the input
PointsAscending ==
    /\ \A k \in 1..(Len(f_ret) - 1) : f_ret[k].module_size < f_ret[k + 1].module_size
    /\ \A k \in 1..Len(f_ret) : f_ret[k].module_size \in InputBins

C22_SameAccuracy ==
    (/\ f_pc = "done"
     /\ f_ret.measurement # None
     /\ f_ret.single.kind = "json")
        => f_ret.measurement[1].accuracy.num
              = f_ret.single.accuracy * f_ret.measurement[1].accuracy.den

(***************************************************************************)
(* Claims about jobs and their workers (checked under Spec)                *)
(***************************************************************************)
StatusStep(a, b) ==
    \/ a = b
    \/ <<a, b>> \in {<<"queued", "running">>, <<"running", "done">>, <<"running", "error">>}

\* C1: under every interleaving of workers, polls and requests, a job starts as
\* queued and its status only changes queued -> running, running -> done or
\* running -> error; a status of done or error is never changed again, and no
\* job leaves the registry.
C1_StatusTransitions ==
    [][ /\ Len(JOBS') >= Len(JOBS)
        /\ \A j \in 1..Len(JOBS) : StatusStep(JOBS[j].status, JOBS'[j].status)
        /\ \A j \in (Len(JOBS) + 1)..Len(JOBS') : JOBS'[j].status = "queued" ]_vars

\* one job is done and was polled as done while another job ended in error
C1_Witness ==
    /\ \E i, j \in 1..Len(JOBS) :
          /\ JOBS[i].status = "done"
          /\ JOBS[j].status = "error"
          /\ workers[j].loc.seen > 0
    /\ polled # None
    /\ polled[1].found
    /\ polled[1].status = "done"

\* C2: when run_experiment returned a non-empty result set and post-processing
\* (save_results_json, build_bin_stats or build_interactive_plot) failed, the
\* job has status error and carries a cause.
C2_PostFailureIsError ==
    \A j \in 1..Len(workers) :
        workers[j].pc = "died" =>
            /\ JOBS[workers[j].job_id].status = "error"
            /\ JOBS[workers[j].job_id].error # None

\* the request selects, by name, a stored dataset that has the folders and no
\* image in them, with an engine of the registry
ZeroSampleRequest(rq, fs) ==
    /\ rq.engine # None
    /\ rq.engine[1] \in ENGINE_REGISTRY
    /\ rq.dataset_source \in {None, Some(""), Some("existing")}
    /\ rq.dataset_name # None
    /\ Strip(rq.dataset_name[1]) \in DOMAIN fs
    /\ fs[Strip(rq.dataset_name[1])].structure
    /\ fs[Strip(rq.dataset_name[1])].images = 0

JobCounters == {"seen", "processed", "skipped_no_markup"}

CountersLeq(a, b) == \A k \in JobCounters : a[k] <= b[k]

\* C12: the progress counters of a job never decrease: every step leaves each
\* counter of each registered job at least as large as before, a poll returns the
\* registry's current values, and a poll of a job that follows a poll of the same
\* job shows counters at least as large.
C12_CountersMonotone ==
    [][ /\ \A j \in 1..Len(JOBS) : CountersLeq(JOBS[j], JOBS'[j])
        /\ (polled' # polled /\ polled'[1].found) =>
              \A k \in JobCounters : polled'[1][k] = JOBS[polled'[1].job_id][k]
        /\ (/\ polled # None
            /\ polled' # None
            /\ polled[1].found
            /\ polled'[1].found
            /\ polled'[1].job_id = polled[1].job_id) => CountersLeq(polled[1], polled'[1])
      ]_vars

\* a poll of a job that is still running and has counted a kept and a skipped
\* sample
C12_Witness ==
    /\ polled # None
    /\ polled[1].found
    /\ polled[1].status = "running"
    /\ polled[1].seen = 2
    /\ polled[1].processed = 1
    /\ polled[1].skipped_no_markup = 1

SeenCoversCounted(c) == c.seen >= c.processed + c.skipped_no_markup

\* C13: in every snapshot an observer can obtain, at any instant of a job's
\* life, seen is at least processed plus the job's skip counters; the same holds
\* of every job dict in the registry.
C13_SeenCoversCounted ==
    /\ \A j \in 1..Len(JOBS) : SeenCoversCounted(JOBS[j])
    /\ (polled # None /\ polled[1].found) => SeenCoversCounted(polled[1])

\* a snapshot in which seen exceeds processed plus the skips the job counts: one
\* sample was kept and one was lost to an image-read failure
C13_Witness ==
    /\ polled # None
    /\ polled[1].found
    /\ polled[1].seen = 2
    /\ polled[1].processed = 1
    /\ polled[1].skipped_no_markup = 0

\* the skip classes of run_experiment
SkipClasses == {"skipped_no_markup", "skipped_bad_module", "skipped_image_read"}

\* C15: the job state read by polling carries one counter for each skip class
\* (no markup, bad module size, image-read failure), and while the run goes on
\* and after it each of them equals run_experiment's value for that class at the
\* latest progress callback.
C15_PollCarriesAllSkipCounters ==
    /\ (polled # None /\ polled[1].found) => SkipClasses \subseteq DOMAIN polled[1]
    /\ \A j \in 1..Len(JOBS) :
          /\ SkipClasses \subseteq DOMAIN JOBS[j]
          /\ workers[j].pc \in {"run", "post"} =>
                \A k \in SkipClasses : JOBS[j][k] = workers[j].loc[k]

\* C16: in every reachable state of every job the error detail is set only if
\* the status is error, and json_file and html_file are set only if the status
\* is done; a poll shows an error only together with status error.
C16_DetailMatchesStatus ==
    /\ \A j \in 1..Len(JOBS) :
          /\ JOBS[j].error # None => JOBS[j].status = "error"
          /\ JOBS[j].json_file # None => JOBS[j].status = "done"
          /\ JOBS[j].html_file # None => JOBS[j].status = "done"
    /\ (polled # None /\ polled[1].found /\ polled[1].error # None) =>
          polled[1].status = "error"

\* one job is done with both artifacts, another ended in error with its cause,
\* and the latest poll showed an error
C16_Witness ==
    /\ \E i, j \in 1..Len(JOBS) :
          /\ JOBS[i].status = "done"
          /\ JOBS[i].json_file # None
          /\ JOBS[i].html_file # None
          /\ JOBS[j].status = "error"
          /\ JOBS[j].error = Some("Experiment failed")
    /\ polled # None
    /\ polled[1].found
    /\ polled[1].error # None

\* C26: a job's status is done only after the engine was constructed,
\* run_experiment went through every sample and returned a non-empty result
\* set, and saving and report building completed (the worker has left
\* post-processing with both files named); skipped samples never prevent done
\* when a sample was processed: a job is in error only for a failed engine
\* construction, a failed experiment or an empty result set, and the last only
\* with processed = 0.
C26_DoneOnlyAfterEverything ==
    \A j \in 1..Len(JOBS) :
        /\ JOBS[j].status = "done" =>
              /\ workers[j].pc = "exit"
              /\ workers[j].loc.seen = sample_count(datasets, workers[j].dataset)
              /\ workers[j].loc.results # <<>>
              /\ workers[j].loc.processed >= 1
              /\ JOBS[j].json_file # None
              /\ JOBS[j].html_file # None
        /\ JOBS[j].status = "error" =>
              /\ JOBS[j].error \in {Some("Failed to initialize engine"),
                                    Some("Experiment failed"),
                                    Some("No results produced.")}
              /\ JOBS[j].error = Some("No results produced.") =>
                    workers[j].loc.processed = 0

\* a job is done although one of its two samples was skipped for an image-read
\* failure
C26_Witness ==
    \E j \in 1..Len(JOBS) :
        /\ JOBS[j].status = "done"
        /\ workers[j].loc.processed = 1
        /\ workers[j].loc.skipped_image_read = 1

\* a job has ended, or its post-processing has raised
JobSettled(j) ==
    /\ j \in 1..Len(JOBS)
    /\ \/ JOBS[j].status \in {"done", "error"}
       \/ workers[j].pc = "died"

\* C28: under fair scheduling of the worker threads, with every decode call
\* returning or raising, every job a run request creates eventually reaches
\* done or error unless saving or plotting raises; none stays queued or running
\* forever.
C28_JobsSettle ==
    \A j \in 1..MaxRequests : (j \in 1..Len(JOBS)) ~> JobSettled(j)

\* the first job went from queued to done and the second to error with a
\* failed engine construction, both threads over
C28_Witness ==
    /\ Len(JOBS) >= 2
    /\ workers[1].pc = "exit"
    /\ workers[2].pc = "exit"
    /\ JOBS[1].status = "done"
    /\ JOBS[2].error = Some("Failed to initialize engine")

\* the keys of a job that _init_job sets for good
CreationKeys == {"dataset", "engine", "iterations", "bin_step_px", "total"}

\* C30: with several jobs running concurrently, an update made for one job id
\* (a status change or a progress callback) leaves every other entry of the
\* registry unchanged; an update for an id that is not in the registry changes
\* nothing; no entry is ever removed, and a job's dataset, engine, iterations,
\* bin step and total never change after creation.
C30_UpdatesStayInTheirEntry ==
    [][/\ Len(JOBS') >= Len(JOBS)
       /\ \A j \in 1..Len(JOBS) :
             /\ \A k \in CreationKeys : JOBS'[j][k] = JOBS[j][k]
             /\ JOBS'[j] # JOBS[j] =>
                   /\ workers'[j] # workers[j]
                   /\ \A i \in 1..Len(JOBS) : i # j => JOBS'[i] = JOBS[i]
       /\ update_job(JOBS, Len(JOBS) + 1, [status |-> "error"]) = JOBS]_vars

\* two jobs side by side: the first is running with one sample seen, the second
\* still holds exactly what _init_job stored
C30_Witness ==
    /\ Len(JOBS) = 2
    /\ JOBS[1].status = "running"
    /\ JOBS[1].seen = 1
    /\ workers[2].pc = "start"
    /\ JOBS[2] = NewJob(<<"a">>, "opencv", 2, 2, 2)

(***************************************************************************)
(* Claims about JOBS_LOCK (checked under SpecLock)                         *)
(***************************************************************************)
CounterKeys == {"seen", "processed", "skipped_no_markup"}

StatusKeys == {"status", "error", "json_file", "html_file", "summary"}

\* the values returned under `keys` are those of one stored job dict
FromOneStoredDict(copy, keys) == \E h \in history : \A k \in keys : copy[k] = h[k]

\* C14: a reader never observes a torn update: in every snapshot returned by
\* _get_job the counters (seen, processed, skipped_no_markup) are those one
\* progress callback stored, or those of job creation, and status, error,
\* json_file, html_file and summary are those one _update_job call left, or
\* those of job creation; the lock is never held by two threads.
C14_NoTornSnapshot ==
    /\ Cardinality(JOBS_LOCK) <= 1
    /\ snapshot # None =>
          /\ FromOneStoredDict(snapshot[1], CounterKeys)
          /\ FromOneStoredDict(snapshot[1], StatusKeys)

\* the observer is copying the job while the worker waits at the lock with a
\* progress update, after an earlier snapshot of the running job
C14_Witness ==
    /\ snapshot # None
    /\ snapshot[1].status = "running"
    /\ r_call # None
    /\ r_call[1].at = "copy"
    /\ Len(r_call[1].todo) = 5
    /\ w_call # None
    /\ w_call[1].at = "enter"
    /\ "seen" \in DOMAIN w_call[1].updates

\* C23: JOBS_LOCK is never held while engine construction, run_experiment, a
\* decode call or post-processing is executing: the worker holds it only inside
\* the with block of _update_job, so whenever the worker is anywhere else in
\* _run_job the lock is free or held by a handler that is copying the job in
\* _get_job, and a poll is never kept waiting for the length of a decode.
C23_LockOnlyAroundRegistry ==
    /\ w_call = None => "worker" \notin JOBS_LOCK
    /\ "worker" \in JOBS_LOCK => w_call[1].at = "update"
    /\ "observer" \in JOBS_LOCK => (r_call # None /\ r_call[1].at = "copy")

\* the worker is inside run_experiment, one sample done and one to go, while a
\* handler holds the lock and copies the job
C23_Witness ==
    /\ w_call = None
    /\ workers[1].pc = "run"
    /\ workers[1].loc.seen = 1
    /\ JOBS[1].seen = 1
    /\ "observer" \in JOBS_LOCK

\* C29: every snapshot _get_job returns of a job with status done has
\* json_file, html_file and summary set, has processed >= 1, and has its live
\* counters equal to its summary; so the results page never finds a done job
\* without its artifacts.
C29_DoneSnapshotComplete ==
    (snapshot # None /\ snapshot[1].status = "done") =>
        /\ snapshot[1].json_file # None
        /\ snapshot[1].html_file # None
        /\ snapshot[1].summary # None
        /\ snapshot[1].processed >= 1
        /\ snapshot[1].processed = snapshot[1].summary[1].processed
        /\ snapshot[1].skipped_no_markup = snapshot[1].summary[1].skipped_no_markup

\* a handler has copied a done job that kept one sample and skipped the other
\* for its missing markup
C29_Witness ==
    /\ snapshot # None
    /\ snapshot[1].status = "done"
    /\ snapshot[1].summary = Some([processed |-> 1, skipped_no_markup |-> 1])
    /\ snapshot[1].seen = 2

(***************************************************************************)
(* Claims about the /run handler (checked under SpecRoute)                 *)
(***************************************************************************)
\* the form value is the text of a positive integer
NumericValid(v) == v # None /\ PyInt(v[1]) # None /\ PyInt(v[1])[1] > 0

\* what the request asks for, or the default when the value is invalid
NumericOrDefault(v, default) == IF NumericValid(v) THEN PyInt(v[1])[1] ELSE default

\* the request is the well-formed one in everything but its numeric values
NumericVariant(rq) ==
    /\ rq.engine = BaseRequest.engine
    /\ rq.dataset_source = BaseRequest.dataset_source
    /\ rq.dataset_name = BaseRequest.dataset_name
    /\ rq.dataset_file = BaseRequest.dataset_file

\* C4 as stated: a request whose iterations or bin step is missing, not an
\* integer, zero or negative registers no job and starts no worker.
C4_InvalidNumbersRejected ==
    [][ (/\ nreq' = nreq + 1
         /\ ~NumericValid(req'.iterations) \/ ~NumericValid(req'.bin_step_px)) =>
            /\ JOBS' = JOBS
            /\ workers' = workers ]_vars

\* C4 as amended: an invalid iterations or bin step is not rejected but replaced
\* by its default (3 iterations, bin step 2); with a valid engine and a dataset
\* that has images the job is registered and its worker started with the values
\* so obtained.
C4_InvalidNumbersDefaulted ==
    [][ (nreq' = nreq + 1 /\ NumericVariant(req')) =>
            LET iterations == NumericOrDefault(req'.iterations, 3)
                bin_step_px == NumericOrDefault(req'.bin_step_px, 2)
            IN  /\ Len(JOBS') = Len(JOBS) + 1
                /\ SubSeq(JOBS', 1, Len(JOBS)) = JOBS
                /\ JOBS'[Len(JOBS')].iterations = iterations
                /\ JOBS'[Len(JOBS')].bin_step_px = bin_step_px
                /\ JOBS'[Len(JOBS')].status = "queued"
                /\ Len(workers') = Len(workers) + 1
                /\ workers'[Len(workers')].job_id = Len(JOBS')
                /\ workers'[Len(workers')].iterations = iterations
                /\ workers'[Len(workers')].bin_step_px = bin_step_px
                /\ resp' = [kind |-> "redirect", error |-> None,
                            job_id |-> Some(Len(JOBS'))] ]_vars

\* a request with a non-numeric iterations value and a bin step of zero got a job
\* with 3 iterations and bin step 2
C4_Witness ==
    /\ nreq > 0
    /\ req.iterations = Some(<<"x">>)
    /\ req.bin_step_px = Some(<<"0">>)
    /\ resp.kind = "redirect"
    /\ resp.job_id = Some(Len(JOBS))
    /\ JOBS[Len(JOBS)].iterations = 3
    /\ JOBS[Len(JOBS)].bin_step_px = 2
    /\ workers[Len(workers)].iterations = 3

\* the engine key of the request is not a key of the registry
BadEngine(rq) == rq.engine = None \/ rq.engine[1] \notin ENGINE_REGISTRY

\* the dataset name the request submits: the form field, or for an upload the
\* stem of the file name
SubmittedName(rq) ==
    IF rq.dataset_source = Some("zip")
    THEN IF rq.dataset_file = None THEN None ELSE Some(Stem(rq.dataset_file[1].filename))
    ELSE rq.dataset_name

\* the name is empty, fails [A-Za-z0-9_-]+, or names a directory that lacks the
\* dataset folders
BadDatasetName(v, fs) ==
    \/ v = None
    \/ Strip(v[1]) = <<>>
    \/ \E i \in 1..Len(Strip(v[1])) : Strip(v[1])[i] \notin NameClass
    \/ Strip(v[1]) \in DOMAIN fs /\ ~fs[Strip(v[1])].structure

\* C5: a request with an engine key outside the registry, or with a dataset name
\* that is empty, fails the name pattern or names a directory without the
\* dataset structure, is answered with an error; the job registry is unchanged
\* and no worker is started.
C5_BadSelectionRejected ==
    [][ (/\ nreq' = nreq + 1
         /\ BadEngine(req') \/ BadDatasetName(SubmittedName(req'), datasets)) =>
            /\ JOBS' = JOBS
            /\ workers' = workers
            /\ resp'.kind = "page"
            /\ resp'.error # None
            /\ resp'.job_id = None ]_vars

\* after one job was registered, a request naming the directory without the
\* dataset folders was refused and the registry still holds that one job
C5_Witness ==
    /\ nreq = 2
    /\ Len(JOBS) = 1
    /\ Len(workers) = 1
    /\ req.dataset_name = Some(<<"n">>)
    /\ req.dataset_source = Some("existing")
    /\ resp = PageResponse("Dataset is missing or has invalid structure.")

====
